---- MODULE Spec2Model ----
(***************************************************************************)
(* agrows: generator of an RPC layer (server dispatcher AgrowsReceive and  *)
(* client stubs) from the exported functions of one Go source file.        *)
(*                                                                         *)
(* The model follows the latest revision of the generator, the one that    *)
(* has the type registry, the client main and jsValueToAny                 *)
(* (src/unnamed/part_000, lines 601-1350).  It has two levels:             *)
(*   - the generator: the parsed input tree, the catalog (Input.Functions) *)
(*     and the code it emits, kept as data (the cases of the dispatcher,   *)
(*     the client stubs);                                                  *)
(*   - the generated code at run time: AgrowsReceive stepping through the  *)
(*     statements of the case it was generated with, and the client proxy. *)
(***************************************************************************)
EXTENDS Integers, Sequences, FiniteSets, TLC

\* Bound of the model: number of top-level declarations of the input file.
MaxDecls == 2

\* Bounds of the generator runs: declarations of the input file, runs per
\* behaviour, and the values of the clock.
MaxGenDecls == 1
MaxRuns == 2
MaxClock == 1

\* Bound of the files whose merged output is examined: declarations per file.
MaxEmitDecls == 3

SERVER == 1
CLIENT == 2
Modes == {SERVER, CLIENT}

modifiedFunctionFormat == "agrows_"
wrapperFunctionFormat == "Wrapper"

(***************************************************************************)
(* Strings                                                                 *)
(***************************************************************************)
UpperCase ==
    {"A", "B", "C", "D", "E", "F", "G", "H", "I", "J", "K", "L", "M",
     "N", "O", "P", "Q", "R", "S", "T", "U", "V", "W", "X", "Y", "Z"}

\* token.IsExported: the first letter of the name is upper case.
IsExported(name) == Len(name) > 0 /\ SubSeq(name, 1, 1) \in UpperCase

\* strings.Contains
Contains(s, sub) ==
    \E i \in 1..(Len(s) - Len(sub) + 1) : SubSeq(s, i, i + Len(sub) - 1) = sub

\* fmt.Sprintf(modifiedFunctionFormat, name), format "agrows_%s"
ModifiedName(name) == modifiedFunctionFormat \o name

\* fmt.Sprintf(wrapperFunctionFormat, name), format "%sWrapper"
WrapperName(name) == name \o wrapperFunctionFormat

(***************************************************************************)
(* The parsed input (dst.File): a sequence of declarations.                *)
(* A type expression is an Ident or another node kind; every record has    *)
(* the same fields so that values stay comparable.                         *)
(***************************************************************************)
Ident(n) == [kind |-> "Ident", Name |-> n, Fields |-> <<>>]
StructType(fields) == [kind |-> "StructType", Name |-> "", Fields |-> fields]

\* A type expression of another node kind: "StarExpr" (*T), "ArrayType"
\* ([]T), "MapType" (map[K]V), "SelectorExpr" (pkg.T).  It has no Name.
OtherExpr(kind) == [kind |-> kind, Name |-> "", Fields |-> <<>>]

Field(names, type) == [Names |-> names, Type |-> type]

NoType == [kind |-> "none", Name |-> "", Fields |-> <<>>]

\* Body: the names of the functions the body of the declaration calls.
FuncDecl(name, params, results) ==
    [node |-> "FuncDecl", Tok |-> "func", Name |-> name, Recv |-> "",
     Params |-> params, Results |-> results, Type |-> NoType,
     Specs |-> <<>>, Body |-> <<>>]

\* A function declaration with a receiver of the named type.
Method(recv, name, params, results) ==
    [FuncDecl(name, params, results) EXCEPT !.Recv = recv]

TypeDecl(name, type) ==
    [node |-> "GenDecl", Tok |-> "type", Name |-> name, Recv |-> "",
     Params |-> <<>>, Results |-> <<>>, Type |-> type,
     Specs |-> <<>>, Body |-> <<>>]

\* An import spec: its local name ("" when it has none), its path, and
\* whether an empty line precedes it in its block.
ImportSpec(name, path, gap) == [Name |-> name, Path |-> path, Gap |-> gap]

\* An import declaration with its specs.
ImportDecl(specs) ==
    [node |-> "GenDecl", Tok |-> "import", Name |-> "", Recv |-> "",
     Params |-> <<>>, Results |-> <<>>, Type |-> NoType,
     Specs |-> specs, Body |-> <<>>]

\* The declarations the input files of the model are made of.
DeclPool ==
    { TypeDecl("CalcInput", StructType(<<"A", "B">>)),
      TypeDecl("Empty", StructType(<<>>)),
      FuncDecl("Greet", <<Field(<<"name">>, Ident("string"))>>,
                        <<Field(<<>>, Ident("string"))>>),
      FuncDecl("Sum", <<Field(<<"a", "b">>, Ident("int"))>>,
                      <<Field(<<>>, Ident("int")), Field(<<>>, Ident("error"))>>),
      FuncDecl("Scale", <<Field(<<"inp">>, Ident("CalcInput")),
                          Field(<<"k">>, Ident("int"))>>,
                        <<Field(<<>>, Ident("int"))>>),
      FuncDecl("Tag", <<Field(<<"e">>, Ident("Empty")),
                        Field(<<"k">>, Ident("int"))>>,
                      <<Field(<<>>, Ident("string")), Field(<<>>, Ident("error"))>>),
      FuncDecl("CrazyMath", <<Field(<<"inp">>, Ident("CalcInput"))>>,
                            <<Field(<<>>, Ident("string"))>>),
      FuncDecl("helper", <<Field(<<"x">>, Ident("int"))>>,
                         <<Field(<<>>, Ident("int"))>>),
      FuncDecl("Ping", <<>>, <<>>) }

RECURSIVE SeqsUpTo(_, _)
SeqsUpTo(S, n) ==
    IF n = 0 THEN {<<>>}
    ELSE LET shorter == SeqsUpTo(S, n - 1)
         IN  shorter \cup {Append(s, d) : s \in shorter, d \in S}

\* Input files: sequences of distinct declarations.
Sources ==
    {s \in SeqsUpTo(DeclPool, MaxDecls) :
        \A i, j \in 1..Len(s) : i # j => s[i] # s[j]}

Range(s) == {s[i] : i \in 1..Len(s)}

RECURSIVE FlatMap(_, _)
\* Concatenation of Op(x) over the elements of a sequence of sequences.
FlatMap(ss, i) == IF i > Len(ss) THEN <<>> ELSE ss[i] \o FlatMap(ss, i + 1)

(***************************************************************************)
(* Type Classifier and Signature Catalog Builder                           *)
(***************************************************************************)
\* extractTypeMap: every type spec of the file, name -> declared type node;
\* a later spec of the same name overwrites an earlier one.
extractTypeMap(node) ==
    LET idx(n) == {i \in 1..Len(node) :
                      node[i].node = "GenDecl" /\ node[i].Tok = "type"
                      /\ node[i].Name = n}
        names == {node[i].Name : i \in {j \in 1..Len(node) :
                      node[j].node = "GenDecl" /\ node[j].Tok = "type"}}
    IN  [n \in names |->
            node[CHOOSE i \in idx(n) : \A j \in idx(n) : j <= i].Type]

\* Variant of isStruct: every identifier the type map knows is a struct.
isStructAnyNamed(typeMap, expr) ==
    CASE expr.kind = "StructType" -> TRUE
      [] expr.kind = "Ident" -> expr.Name \in DOMAIN typeMap
      [] OTHER -> FALSE

\* isStruct: an inline struct type, or an identifier the type map maps to a
\* struct type; anything else is not a struct.
isStruct(typeMap, expr) ==
    CASE expr.kind = "StructType" -> TRUE
      [] expr.kind = "Ident" ->
            /\ expr.Name \in DOMAIN typeMap
            /\ typeMap[expr.Name].kind = "StructType"
      [] OTHER -> FALSE

ParamReflectInfo(names, type, struct) ==
    [Names |-> names, Type |-> type, IsStruct |-> struct]

\* The nil *dst.Ident that extractFuncInfo stores for an anonymous result.
NilIdent == ""

\* Variant of ExplodeParams: one entry per field, under its first name.
ExplodeParamsPerField(fields, typeMap) ==
    [i \in 1..Len(fields) |->
        ParamReflectInfo(<<fields[i].Names[1]>>, fields[i].Type,
                         isStruct(typeMap, fields[i].Type))]

\* Parameters: one entry per name of every field (grouped names exploded).
ExplodeParams(fields, typeMap) ==
    FlatMap([i \in 1..Len(fields) |->
                [j \in 1..Len(fields[i].Names) |->
                    ParamReflectInfo(<<fields[i].Names[j]>>, fields[i].Type,
                                     isStruct(typeMap, fields[i].Type))]], 1)

\* Results: one entry per field; a named field keeps its first name only.
ResultEntries(fields, typeMap) ==
    [i \in 1..Len(fields) |->
        ParamReflectInfo(
            <<IF Len(fields[i].Names) > 0 THEN fields[i].Names[1] ELSE NilIdent>>,
            fields[i].Type, isStruct(typeMap, fields[i].Type))]

FuncInfo(id, params, results) ==
    [OriginalIdentifier |-> id, Params |-> params, Results |-> results]

RECURSIVE extractFuncInfoFrom(_, _, _)
extractFuncInfoFrom(node, typeMap, i) ==
    IF i > Len(node) THEN <<>>
    ELSE LET fn == node[i]
             rest == extractFuncInfoFrom(node, typeMap, i + 1)
         IN  IF fn.node = "FuncDecl" /\ IsExported(fn.Name)
             THEN <<FuncInfo(fn.Name,
                             ExplodeParams(fn.Params, typeMap),
                             ResultEntries(fn.Results, typeMap))>> \o rest
             ELSE rest

extractFuncInfo(node, typeMap) == extractFuncInfoFrom(node, typeMap, 1)

(***************************************************************************)
(* Identifier Rewriter                                                     *)
(***************************************************************************)
\* Variant of modifyOriginalFunctions: every function declaration gets the
\* prefix, exported or not.
modifyEveryFunction(tree) ==
    [i \in 1..Len(tree) |->
        IF tree[i].node = "FuncDecl"
        THEN [tree[i] EXCEPT !.Name = ModifiedName(tree[i].Name)]
        ELSE tree[i]]

\* modifyOriginalFunctions: every exported function declaration gets the
\* prefix; everything else is left alone.
modifyOriginalFunctions(tree) ==
    [i \in 1..Len(tree) |->
        IF tree[i].node = "FuncDecl" /\ IsExported(tree[i].Name)
        THEN [tree[i] EXCEPT !.Name = ModifiedName(tree[i].Name)]
        ELSE tree[i]]

RECURSIVE SelectDecls(_, _)
\* removeOriginalAndUnexportedFunctions: the client keeps no function at all.
SelectDecls(tree, i) ==
    IF i > Len(tree) THEN <<>>
    ELSE (IF tree[i].node # "FuncDecl" THEN <<tree[i]>> ELSE <<>>)
         \o SelectDecls(tree, i + 1)

removeOriginalAndUnexportedFunctions(tree) == SelectDecls(tree, 1)

(***************************************************************************)
(* Server Dispatch Generator: the code generateServerReceiver emits, kept  *)
(* as data.  One case per catalog entry, in catalog order.                 *)
(***************************************************************************)
\* param.Type.(*dst.Ident): the assertion panics for any other node kind.
IsIdent(expr) == expr.kind = "Ident"

\* varNames of a case: "err<i>" for a result of type error, "str<i>" for a
\* result of type string, "ret<i>" otherwise, i counted from 0.
VarNameOf(result, i) ==
    CASE result.Type.Name = "error" -> "err" \o ToString(i - 1)
      [] result.Type.Name = "string" -> "str" \o ToString(i - 1)
      [] OTHER -> "ret" \o ToString(i - 1)

\* firstReturnedError / firstReturnedString: the loop overwrites the name at
\* every result of that type, so the last one stays; "" when there is none.
LastVarOfType(results, typeName) ==
    LET idx == {i \in 1..Len(results) : results[i].Type.Name = typeName}
    IN  IF idx = {} THEN ""
        ELSE VarNameOf(results[CHOOSE i \in idx : \A j \in idx : j <= i],
                       CHOOSE i \in idx : \A j \in idx : j <= i)

\* Variant of CaseKey: the case keyed by the renamed identifier, as it would
\* be if the catalog shared the identifier the rewriter renames.
CaseKeyRenamed(fnInfo) == ModifiedName(fnInfo.OriginalIdentifier)

\* The key of a dispatcher case: jen.Lit(fnInfo.OriginalIdentifier.Name).
CaseKey(fnInfo) == fnInfo.OriginalIdentifier

\* The function a case calls: fmt.Sprintf(modifiedFunctionFormat, name).
CaseCallee(fnInfo) == ModifiedName(fnInfo.OriginalIdentifier)

\* The variables a case renders in its formatted reply: all of varNames.
FormatArgs(varNames) == varNames

GenCase(fnInfo) ==
    LET varNames == [i \in 1..Len(fnInfo.Results) |->
                        VarNameOf(fnInfo.Results[i], i)]
    IN  [key    |-> CaseKey(fnInfo),
         params |-> [i \in 1..Len(fnInfo.Params) |->
                       [name     |-> fnInfo.Params[i].Names[1],
                        type     |-> fnInfo.Params[i].Type.Name,
                        isStruct |-> fnInfo.Params[i].IsStruct]],
         callee |-> CaseCallee(fnInfo),
         varNames |-> varNames,
         firstReturnedError  |-> LastVarOfType(fnInfo.Results, "error"),
         firstReturnedString |-> LastVarOfType(fnInfo.Results, "string"),
         fmtArgs |-> FormatArgs(varNames)]

\* generateServerReceiver panics when a parameter or result type is no Ident.
ServerGenPanics(infos) ==
    \E i \in 1..Len(infos) :
        \/ \E j \in 1..Len(infos[i].Params) : ~IsIdent(infos[i].Params[j].Type)
        \/ \E j \in 1..Len(infos[i].Results) : ~IsIdent(infos[i].Results[j].Type)

generateServerReceiver(infos) == [i \in 1..Len(infos) |-> GenCase(infos[i])]

(***************************************************************************)
(* Client Proxy Generator                                                  *)
(***************************************************************************)
\* The name the native proxy hands to EncodeFunctionCall.
ProxyEncodedName(info) == info.OriginalIdentifier

\* The keys of the named-argument table of the proxy, in declared order.
ProxyTableKeys(info) == [i \in 1..Len(info.Params) |-> info.Params[i].Names[1]]

\* generateNewClientFunc: the native proxy and the bridge wrapper.
generateNewClientFunc(info) ==
    [proxy       |-> info.OriginalIdentifier,
     params      |-> [i \in 1..Len(info.Params) |->
                        [name |-> info.Params[i].Names[1],
                         type |-> info.Params[i].Type.Name]],
     encodedName |-> ProxyEncodedName(info),
     tableKeys   |-> ProxyTableKeys(info),
     wrapper     |-> WrapperName(info.OriginalIdentifier),
     paramCount  |-> Len(info.Params),
     calls       |-> info.OriginalIdentifier]

\* generateNewClientFunc and generateClientMain assert every parameter type
\* to be an Ident.
ClientGenPanics(infos) ==
    \E i \in 1..Len(infos) :
        \E j \in 1..Len(infos[i].Params) : ~IsIdent(infos[i].Params[j].Type)

\* The name a wrapper is registered under in the host global namespace.
RegisteredName(fnInfo) == fnInfo.OriginalIdentifier

\* Variant of generateClientMain: the loop stops one entry short.
generateClientMainAllButLast(funcInfos) ==
    [i \in 1..(Len(funcInfos) - 1) |->
        [global  |-> funcInfos[i].OriginalIdentifier,
         wrapper |-> WrapperName(funcInfos[i].OriginalIdentifier)]]

\* generateClientMain: global.Set(name, js.FuncOf(<name>Wrapper)) per catalog
\* entry in catalog order, then select {}.
generateClientMain(funcInfos) ==
    [i \in 1..Len(funcInfos) |->
        [global  |-> RegisteredName(funcInfos[i]),
         wrapper |-> WrapperName(funcInfos[i].OriginalIdentifier)]]

(***************************************************************************)
(* Go values at run time.  t: dynamic type name, k: reflect kind,          *)
(* i: integer payload, s: string payload, f: fields of a struct value.     *)
(***************************************************************************)
NoFields == [x \in {} |-> 0]

NilValue == [t |-> "nil", k |-> "invalid", i |-> 0, s |-> "", f |-> NoFields]
IntValue(n) == [t |-> "int", k |-> "int", i |-> n, s |-> "", f |-> NoFields]
StringValue(str) == [t |-> "string", k |-> "string", i |-> 0, s |-> str, f |-> NoFields]
ErrorValue(msg) == [t |-> "error", k |-> "ptr", i |-> 0, s |-> msg, f |-> NoFields]
StructValue(type, fields) == [t |-> type, k |-> "struct", i |-> 0, s |-> "", f |-> fields]

\* The declaration of a named type among the declarations of a file.
TypeNodeOf(decls, typeName) ==
    LET m == extractTypeMap(decls)
    IN  IF typeName \in DOMAIN m THEN m[typeName] ELSE NoType

\* The exported-or-not field names of a struct type, in declared order.
FieldsOf(decls, typeName) == TypeNodeOf(decls, typeName).Fields

\* The zero value of a declared type (var x T).
ZeroValue(decls, typeName) ==
    CASE typeName = "int" -> IntValue(0)
      [] typeName = "string" -> StringValue("")
      [] typeName = "error" -> NilValue
      [] TypeNodeOf(decls, typeName).kind = "StructType" ->
            StructValue(typeName, [x \in Range(FieldsOf(decls, typeName)) |-> 0])
      [] OTHER -> [t |-> typeName, k |-> "other", i |-> 0, s |-> "", f |-> NoFields]

RECURSIVE JoinFields(_, _, _)
\* "A:2 B:3": the fields of a struct as %+v prints them.
JoinFields(v, fields, i) ==
    IF i > Len(fields) THEN ""
    ELSE (IF i > 1 THEN " " ELSE "") \o fields[i] \o ":"
         \o ToString(v.f[fields[i]]) \o JoinFields(v, fields, i + 1)

\* fmt verb %+v.
FormatPlusV(v, decls) ==
    CASE v.t = "nil" -> "<nil>"
      [] v.k = "int" -> ToString(v.i)
      [] v.k = "string" -> v.s
      [] v.t = "error" -> v.s
      [] v.k = "struct" -> "{" \o JoinFields(v, FieldsOf(decls, v.t), 1) \o "}"
      [] OTHER -> v.t

RECURSIVE JoinBadVerb(_, _, _)
JoinBadVerb(v, fields, i) ==
    IF i > Len(fields) THEN ""
    ELSE (IF i > 1 THEN " " ELSE "") \o "%!s(int=" \o ToString(v.f[fields[i]])
         \o ")" \o JoinBadVerb(v, fields, i + 1)

\* fmt verb %s: a string or an error prints as its text, anything else as
\* the bad-verb form.
FormatS(v, decls) ==
    CASE v.t = "nil" -> "%!s(<nil>)"
      [] v.k = "string" -> v.s
      [] v.t = "error" -> v.s
      [] v.k = "int" -> "%!s(int=" \o ToString(v.i) \o ")"
      [] v.k = "struct" -> "{" \o JoinBadVerb(v, FieldsOf(decls, v.t), 1) \o "}"
      [] OTHER -> "%!s(" \o v.t \o ")"

(***************************************************************************)
(* The codec collaborator (package protocol) and the payloads.             *)
(* A payload is either malformed bytes or the encoding of a name and a     *)
(* table of named values; encoding and decoding lose nothing.              *)
(***************************************************************************)
NoArgs == [x \in {} |-> NilValue]

NoPayload == [present |-> FALSE, wf |-> FALSE, name |-> "", args |-> NoArgs]
Malformed == [present |-> TRUE, wf |-> FALSE, name |-> "", args |-> NoArgs]

EncodeFunctionCall(name, table) ==
    [present |-> TRUE, wf |-> TRUE, name |-> name, args |-> table]

Argument(v) == [Value |-> v, Typ |-> v.t]
ZeroArgument == [Value |-> NilValue, Typ |-> ""]

DecodeFunctionCall(data) ==
    IF data.wf
    THEN [err |-> NilValue, functionName |-> data.name,
          args |-> [key \in DOMAIN data.args |-> Argument(data.args[key])]]
    ELSE [err |-> ErrorValue("failed to decode function call"),
          functionName |-> "", args |-> [x \in {} |-> ZeroArgument]]

(***************************************************************************)
(* The generated dispatcher AgrowsReceive at run time.  d is the local     *)
(* state of one invocation; cases and decls are the emitted artifact.      *)
(* Three fields record what happened and are read by no statement: via     *)
(* (who supplied the payload), decoded (the parameters whose statements    *)
(* completed, in that order) and calls (the implementation calls made).    *)
(***************************************************************************)
NoArguments == [x \in {} |-> ZeroArgument]

DispIdle ==
    [pc |-> "idle", data |-> NoPayload, functionName |-> "",
     args |-> NoArguments, case |-> 0, k |-> 0,
     paramArg |-> NoArguments, param |-> NoArgs, ok |-> FALSE,
     rets |-> <<>>, reply |-> "", err |-> NilValue,
     via |-> "", decoded |-> <<>>, calls |-> <<>>]

\* return reply, err
Return(d, reply, err) == [d EXCEPT !.pc = "returned", !.reply = reply, !.err = err]

\* The case the switch selects: the first one whose key equals the name;
\* 0 stands for the default branch.
SelectCase(cases, functionName) ==
    LET idx == {i \in 1..Len(cases) : cases[i].key = functionName}
    IN  IF idx = {} THEN 0 ELSE CHOOSE i \in idx : \A j \in idx : i <= j

\* Variant of UnknownFunctionError: the message without the name.
UnknownFunctionErrorNoName(functionName) == ErrorValue("unknown function")

\* errors.New(fmt.Sprintf("unknown function '%s'", functionName))
UnknownFunctionError(functionName) ==
    ErrorValue("unknown function '" \o functionName \o "'")

\* The position after the k-th parameter of a case: the next parameter, or
\* the call when none is left.
AfterParam(d, c, k) ==
    LET done == IF k = 0 THEN d.decoded ELSE Append(d.decoded, c.params[k].name)
    IN  IF k >= Len(c.params)
        THEN [d EXCEPT !.pc = "call", !.k = k + 1, !.decoded = done]
        ELSE [d EXCEPT !.pc = "param", !.k = k + 1, !.decoded = done]

\* DecodeFunctionCall, the error check, the switch and the var block of the
\* selected case.
Receive(data, via, cases, decls) ==
    LET dec == DecodeFunctionCall(data)
        d0  == [DispIdle EXCEPT !.data = data, !.via = via]
        i   == SelectCase(cases, dec.functionName)
    IN  IF dec.err # NilValue THEN Return(d0, "", dec.err)
        ELSE LET d1 == [d0 EXCEPT !.functionName = dec.functionName,
                                  !.args = dec.args]
             IN  IF i = 0
                 THEN Return(d1, "", UnknownFunctionError(dec.functionName))
                 ELSE LET c == cases[i]
                          names == {c.params[j].name : j \in 1..Len(c.params)}
                          typeOf(n) == (CHOOSE j \in 1..Len(c.params) :
                                            c.params[j].name = n)
                      IN  AfterParam(
                            [d1 EXCEPT
                               !.case = i,
                               !.paramArg = [n \in names |-> ZeroArgument],
                               !.param = [n \in names |->
                                   ZeroValue(decls, c.params[typeOf(n)].type)]],
                            c, 0)

\* The reflective field copy of a struct parameter:
\*   for i < dst.NumField(): dst.Field(i).Set(src.FieldByName(name of i))
\* FieldByName panics unless src is a struct; Set panics on the zero Value
\* FieldByName gives for a field src lacks; a field that cannot be set
\* (unexported) is skipped.
ReflectCopyFields(src, dst, fields) ==
    IF fields = <<>> THEN [panic |-> FALSE, val |-> dst]
    ELSE IF src.k # "struct" THEN [panic |-> TRUE, val |-> dst]
    ELSE IF \E i \in 1..Len(fields) :
                IsExported(fields[i]) /\ fields[i] \notin DOMAIN src.f
         THEN [panic |-> TRUE, val |-> dst]
         ELSE [panic |-> FALSE,
               val |-> [dst EXCEPT !.f = [x \in DOMAIN dst.f |->
                           IF IsExported(x) THEN src.f[x] ELSE dst.f[x]]]]

\* The Argument a struct parameter reads its wire value from: the variable
\* <name>ParamArg, which the struct branch never assigns.
StructSource(d, p) == d.paramArg[p.name]

DecodeStructParam(d, c, p, decls) ==
    LET r == ReflectCopyFields(StructSource(d, p).Value, d.param[p.name],
                               FieldsOf(decls, p.type))
    IN  IF r.panic THEN [d EXCEPT !.pc = "panicked"]
        ELSE AfterParam([d EXCEPT !.param[p.name] = r.val], c, d.k)

\* errors.New(fmt.Sprintf("parameter %s is not in the received arguments", name))
MissingParamError(name) ==
    ErrorValue("parameter " \o name \o " is not in the received arguments")

\* errors.New(fmt.Sprintf("failed to cast parameter '%s' to '%s'",
\*                        <name>Param, paramType)): the first operand is the
\* parameter variable, which holds the zero value after the failed assertion.
CastError(paramVar, paramType, decls) ==
    ErrorValue("failed to cast parameter '" \o FormatS(paramVar, decls)
               \o "' to '" \o paramType \o "'")

\* x.(T) for a concrete type T.
TypeAssertOk(v, typeName) == v.t = typeName

\* Variant of DecodePrimitiveParam: the two checks without their return,
\* the parameter keeping what the failed statement left in it.
DecodePrimitiveParamNoReturn(d, c, p, decls) ==
    IF p.name \notin DOMAIN d.args
    THEN AfterParam([d EXCEPT !.paramArg[p.name] = ZeroArgument, !.ok = FALSE],
                    c, d.k)
    ELSE LET arg == d.args[p.name]
         IN  AfterParam([d EXCEPT !.paramArg[p.name] = arg,
                            !.param[p.name] =
                                IF TypeAssertOk(arg.Value, p.type) THEN arg.Value
                                ELSE ZeroValue(decls, p.type),
                            !.ok = TypeAssertOk(arg.Value, p.type)], c, d.k)

DecodePrimitiveParam(d, c, p, decls) ==
    IF p.name \notin DOMAIN d.args
    THEN Return([d EXCEPT !.paramArg[p.name] = ZeroArgument, !.ok = FALSE],
                "", MissingParamError(p.name))
    ELSE LET arg == d.args[p.name]
             d1  == [d EXCEPT !.paramArg[p.name] = arg]
         IN  IF TypeAssertOk(arg.Value, p.type)
             THEN AfterParam([d1 EXCEPT !.param[p.name] = arg.Value,
                                        !.ok = TRUE], c, d.k)
             ELSE LET zero == ZeroValue(decls, p.type)
                  IN  Return([d1 EXCEPT !.param[p.name] = zero, !.ok = FALSE],
                             "", CastError(zero, p.type, decls))

\* The statements emitted for the k-th parameter of the selected case.
DecodeParam(d, cases, decls) ==
    LET c == cases[d.case]
        p == c.params[d.k]
    IN  IF p.isStruct THEN DecodeStructParam(d, c, p, decls)
        ELSE DecodePrimitiveParam(d, c, p, decls)

\* The call of the renamed implementation with the parameter variables in
\* declared order; rets are the values it returns.
CallArgs(d, c) == [j \in 1..Len(c.params) |-> d.param[c.params[j].name]]

Invoke(d, cases, rets) ==
    LET c == cases[d.case]
    IN  [d EXCEPT !.pc = "reply", !.rets = rets,
                  !.calls = Append(d.calls, [callee |-> c.callee,
                                             args |-> CallArgs(d, c)])]

\* The value bound to a result variable of the case.
VarValue(d, c, var) ==
    d.rets[CHOOSE i \in 1..Len(c.varNames) : c.varNames[i] = var]

RECURSIVE QuotedList(_, _, _, _, _)
\* fmt.Sprintf("'%+v', '%+v', ...", fmtArgs...)
QuotedList(d, c, decls, vars, i) ==
    IF i > Len(vars) THEN ""
    ELSE (IF i > 1 THEN ", " ELSE "") \o "'"
         \o FormatPlusV(VarValue(d, c, vars[i]), decls) \o "'"
         \o QuotedList(d, c, decls, vars, i + 1)

\* Variant of FormatReply: the string result is returned before the error
\* is looked at.
FormatReplyStringFirst(d, cases, decls) ==
    LET c == cases[d.case]
    IN  IF Len(c.varNames) = 0 THEN Return(d, "", NilValue)
        ELSE IF c.firstReturnedString # ""
        THEN Return(d, VarValue(d, c, c.firstReturnedString).s, NilValue)
        ELSE IF /\ c.firstReturnedError # ""
                /\ VarValue(d, c, c.firstReturnedError) # NilValue
        THEN Return(d, "", VarValue(d, c, c.firstReturnedError))
        ELSE Return(d, QuotedList(d, c, decls, c.fmtArgs, 1), NilValue)

\* What follows the call: the error check, then the string result or the
\* formatted list.
FormatReply(d, cases, decls) ==
    LET c == cases[d.case]
    IN  IF Len(c.varNames) = 0 THEN Return(d, "", NilValue)
        ELSE IF /\ c.firstReturnedError # ""
                /\ VarValue(d, c, c.firstReturnedError) # NilValue
        THEN Return(d, "", VarValue(d, c, c.firstReturnedError))
        ELSE IF c.firstReturnedString # ""
        THEN Return(d, VarValue(d, c, c.firstReturnedString).s, NilValue)
        ELSE Return(d, QuotedList(d, c, decls, c.fmtArgs, 1), NilValue)

(***************************************************************************)
(* The renamed implementations (user code) and the Go build of the         *)
(* emitted server file.                                                    *)
(***************************************************************************)
\* Number of values a field list declares: one per name, one for a field
\* without names.
NumValues(fields) ==
    Len(FlatMap([i \in 1..Len(fields) |->
                    [j \in 1..(IF Len(fields[i].Names) = 0 THEN 1
                               ELSE Len(fields[i].Names)) |-> i]], 1))

\* The types of the values a field list declares, in order.
ValueTypes(fields) ==
    FlatMap([i \in 1..Len(fields) |->
                [j \in 1..(IF Len(fields[i].Names) = 0 THEN 1
                           ELSE Len(fields[i].Names)) |-> fields[i].Type.Name]], 1)

\* The plain (receiver-less) functions of the file with a given name.
FuncsNamed(decls, name) ==
    {i \in 1..Len(decls) :
        decls[i].node = "FuncDecl" /\ decls[i].Recv = "" /\ decls[i].Name = name}

\* The Go compiler accepts the emitted dispatcher: no two cases with the same
\* key; the callee exists once, takes as many arguments as the case passes
\* and returns as many values as the case binds; every declared variable is
\* used ("ok" of the var block is used by primitive parameters only; with a
\* string result only that variable and the checked error are used).
CaseBuilds(c, decls) ==
    /\ Cardinality(FuncsNamed(decls, c.callee)) = 1
    /\ LET fn == decls[CHOOSE i \in FuncsNamed(decls, c.callee) : TRUE]
       IN  /\ NumValues(fn.Params) = Len(c.params)
           /\ NumValues(fn.Results) = Len(c.varNames)
    /\ (Len(c.params) > 0 => \E j \in 1..Len(c.params) : ~c.params[j].isStruct)
    /\ (c.firstReturnedString # "" =>
            \A j \in 1..Len(c.varNames) :
                c.varNames[j] \in {c.firstReturnedString, c.firstReturnedError})

ServerBuilds(cases, decls) ==
    /\ \A i, j \in 1..Len(cases) : i # j => cases[i].key # cases[j].key
    /\ \A i \in 1..Len(cases) : CaseBuilds(cases[i], decls)

\* Values an implementation may return for a result of a given type.
ResultValues(typeName, decls) ==
    CASE typeName = "error" -> {NilValue, ErrorValue("boom")}
      [] typeName = "string" -> {StringValue("Hello, Ada")}
      [] typeName = "int" -> {IntValue(5)}
      [] OTHER -> {ZeroValue(decls, typeName)}

RECURSIVE Tuples(_, _, _)
\* All sequences whose i-th element is drawn from S(types[i]).
Tuples(types, i, decls) ==
    IF i > Len(types) THEN {<<>>}
    ELSE {<<v>> \o rest : v \in ResultValues(types[i], decls),
                          rest \in Tuples(types, i + 1, decls)}

\* What the implementation called by a case may return.
ImplResults(c, decls) ==
    Tuples(ValueTypes(decls[CHOOSE i \in FuncsNamed(decls, c.callee) : TRUE].Results),
           1, decls)

(***************************************************************************)
(* Inputs of the run-time side.                                            *)
(***************************************************************************)
\* Values a native caller may pass for a parameter of a given type.
TypedValues(typeName, decls) ==
    CASE typeName = "int" -> {IntValue(2), IntValue(3)}
      [] typeName = "string" -> {StringValue("Ada")}
      [] TypeNodeOf(decls, typeName).kind = "StructType" ->
            {StructValue(typeName,
                [x \in Range(FieldsOf(decls, typeName)) |->
                    1 + CHOOSE i \in 1..Len(FieldsOf(decls, typeName)) :
                            FieldsOf(decls, typeName)[i] = x])}
      [] OTHER -> {ZeroValue(decls, typeName)}

RECURSIVE ArgTuples(_, _, _)
ArgTuples(params, i, decls) ==
    IF i > Len(params) THEN {<<>>}
    ELSE {<<v>> \o rest : v \in TypedValues(params[i].type, decls),
                          rest \in ArgTuples(params, i + 1, decls)}

\* Wire values of any payload: values of the primitive types, a value of the
\* record type, and a table that lacks a field and has an unknown one.
WireValues ==
    { IntValue(2), StringValue("Ada"),
      StructValue("CalcInput", [x \in {"A", "B"} |-> IF x = "A" THEN 2 ELSE 3]),
      [t |-> "map[string]interface {}", k |-> "map", i |-> 0, s |-> "",
       f |-> [x \in {"A", "Z"} |-> IF x = "A" THEN 2 ELSE 9]] }

\* The payloads a caller may hand to AgrowsReceive: malformed bytes, calls
\* of names that are no case key (a name the file does not have, and the
\* names the functions of the emitted file carry), and calls of every case
\* with each declared parameter absent or bound to any wire value.
RawPayloads(cases, decls) ==
    {Malformed, EncodeFunctionCall("Nope", NoArgs)}
    \cup {EncodeFunctionCall(decls[i].Name, NoArgs) :
            i \in {j \in 1..Len(decls) : decls[j].node = "FuncDecl"}}
    \cup UNION { { EncodeFunctionCall(cases[i].key, [n \in keys |-> val[n]]) :
                     val \in [{cases[i].params[j].name :
                                 j \in 1..Len(cases[i].params)} -> WireValues],
                     keys \in SUBSET {cases[i].params[j].name :
                                        j \in 1..Len(cases[i].params)} }
                 : i \in 1..Len(cases) }

(***************************************************************************)
(* The native proxy of the client and sendMessage.                         *)
(***************************************************************************)
\* The named-argument table the proxy builds: map[string]any{"<p>": <p>, ...}
ProxyTable(stub, vals) ==
    [n \in Range(stub.tableKeys) |->
        vals[CHOOSE i \in 1..Len(stub.tableKeys) : stub.tableKeys[i] = n]]

JsError(msg) == ErrorValue(msg)

RECURSIVE SetToSeq(_)
SetToSeq(S) ==
    IF S = {} THEN <<>>
    ELSE LET x == CHOOSE y \in S : TRUE IN <<x>> \o SetToSeq(S \ {x})

\* The bytes of a payload ([]byte), kept as a sequence of units: one for the
\* name and one per entry of the table.
Bytes(data) ==
    IF ~data.present THEN <<>>
    ELSE IF ~data.wf THEN <<"?">>
    ELSE <<data.name>> \o SetToSeq(DOMAIN data.args)

\* Variant of NewUint8Array: the buffer one element short.
NewUint8ArrayShort(length) ==
    [i \in 1..(IF length > 0 THEN length - 1 ELSE 0) |-> ""]

\* js.Global().Get("Uint8Array").New(len(data)): a zeroed host buffer.
NewUint8Array(length) == [i \in 1..length |-> ""]

\* js.CopyBytesToJS(dst, src): copies min(len(dst), len(src)) elements.
CopyBytesToJS(dst, src) ==
    [i \in 1..Len(dst) |-> IF i <= Len(src) THEN src[i] ELSE dst[i]]

\* sendMessage(data): the host global "sendMessage" must be a function;
\* then the payload is copied to a Uint8Array and handed to it.  lookups,
\* allocated and invoked record what sendMessage did to the host; sent is
\* the payload the host callable got, as the transport sees it.
sendMessage(data, hostCallable) ==
    IF ~hostCallable
    THEN [ret |-> JsError("sendMessage is not a JS function"), sent |-> NoPayload,
          lookups |-> <<"sendMessage">>, allocated |-> <<>>, invoked |-> <<>>]
    ELSE LET uint8Array == CopyBytesToJS(NewUint8Array(Len(Bytes(data))),
                                         Bytes(data))
         IN  [ret |-> NilValue,
              sent |-> IF uint8Array = Bytes(data) THEN data ELSE Malformed,
              lookups |-> <<"sendMessage", "Uint8Array">>,
              allocated |-> <<Len(uint8Array)>>,
              invoked |-> <<uint8Array>>]

\* The native proxy: encode (name, options, table), return the error of the
\* codec, or what sendMessage returns.
ProxyBody(stub, vals, encodeFails, hostCallable) ==
    IF encodeFails
    THEN [ret |-> ErrorValue("encode failed"), sent |-> NoPayload,
          lookups |-> <<>>, allocated |-> <<>>, invoked |-> <<>>]
    ELSE sendMessage(EncodeFunctionCall(stub.encodedName, ProxyTable(stub, vals)),
                     hostCallable)

ClientIdle == [pc |-> "idle", fn |-> "", vals |-> <<>>, ret |-> NilValue]

(***************************************************************************)
(* Bridge values (js.Value) and the Value Conversion Routine jsValueToAny. *)
(* tag: what v.Type() reports; n: a number in tenths (37 is 3.7) or the    *)
(* truth value of a boolean; s: the text of a string; o: the own           *)
(* properties of an object.  A Go float64 keeps its payload in tenths in   *)
(* field i; an unsigned value that wrapped carries "+2^64" in field s.     *)
(***************************************************************************)
JsNumber(tenths) == [tag |-> "number", n |-> tenths, s |-> "", o |-> NoFields]
JsString(str) == [tag |-> "string", n |-> 0, s |-> str, o |-> NoFields]
JsBoolean(b) == [tag |-> "boolean", n |-> IF b THEN 1 ELSE 0, s |-> "", o |-> NoFields]
JsNull == [tag |-> "null", n |-> 0, s |-> "", o |-> NoFields]
JsUndefined == [tag |-> "undefined", n |-> 0, s |-> "", o |-> NoFields]
JsSymbol == [tag |-> "symbol", n |-> 0, s |-> "", o |-> NoFields]
JsFunction == [tag |-> "function", n |-> 0, s |-> "", o |-> NoFields]
JsObject(props) == [tag |-> "object", n |-> 0, s |-> "", o |-> props]

BoolValue(b) == [t |-> "bool", k |-> "bool", i |-> b, s |-> "", f |-> NoFields]
FloatValue(tenths) ==
    [t |-> "float64", k |-> "float64", i |-> tenths, s |-> "", f |-> NoFields]
\* uint(x): a negative x wraps modulo 2^64.
UintValue(x) ==
    [t |-> "uint", k |-> "uint", i |-> x,
     s |-> IF x < 0 THEN "+2^64" ELSE "", f |-> NoFields]
\* A js.Value handed on as a Go value.
JsValueAsGo(v) == [t |-> "js.Value", k |-> "struct", i |-> 0, s |-> v.tag, f |-> NoFields]

SignedKinds == {"int", "int8", "int16", "int32", "int64"}
UnsignedKinds == {"uint", "uint8", "uint16", "uint32", "uint64"}
FloatKinds == {"float32", "float64"}

\* reflect.TypeOf((*T)(nil)).Elem().Kind()
KindOf(decls, typeName) ==
    CASE typeName \in SignedKinds \cup UnsignedKinds \cup FloatKinds -> typeName
      [] typeName \in {"string", "bool"} -> typeName
      [] TypeNodeOf(decls, typeName).kind = "StructType" -> "struct"
      [] OTHER -> "interface"

\* v.Int(): the number truncated toward zero.
JsInt(v) == IF v.n >= 0 THEN v.n \div 10 ELSE -((-v.n) \div 10)

\* Variant of NumberToAny: every numeric kind keeps the fraction.
NumberToAnyNoTruncation(v, kind) == FloatValue(v.n)

\* The TypeNumber case: switch targetType.Kind().
NumberToAny(v, kind) ==
    CASE kind \in SignedKinds -> IntValue(JsInt(v))
      [] kind \in UnsignedKinds -> UintValue(JsInt(v))
      [] kind \in FloatKinds -> FloatValue(v.n)
      [] OTHER -> FloatValue(v.n)

\* json.Unmarshal of one member into an int field of a struct: a number
\* without fraction fits, null leaves the field alone, the rest fails.
MemberFits(val) ==
    \/ val.t = "nil"
    \/ val.k = "float64" /\ val.i % 10 = 0

\* json.Marshal of the table, then json.Unmarshal into a fresh targetType.
JsonToTarget(result, targetType, decls) ==
    LET kind == KindOf(decls, targetType)
        fields == Range(FieldsOf(decls, targetType))
        set == {x \in fields : x \in DOMAIN result /\ result[x].t # "nil"}
    IN  CASE kind = "struct" ->
               IF \A x \in fields \cap DOMAIN result : MemberFits(result[x])
               THEN [val |-> StructValue(targetType,
                               [x \in fields |->
                                   IF x \in set THEN result[x].i \div 10 ELSE 0]),
                     err |-> NilValue]
               ELSE [val |-> NilValue,
                     err |-> JsError("failed to unmarshal json to target type: ")]
          [] kind = "interface" ->
               [val |-> [t |-> "map[string]interface {}", k |-> "map", i |-> 0,
                         s |-> "", f |-> [x \in DOMAIN result |-> result[x].i]],
                err |-> NilValue]
          [] OTHER ->
               [val |-> NilValue,
                err |-> JsError("failed to unmarshal json to target type: ")]

\* Variant of UnsupportedJsValue: the value is handed on as it is.
UnsupportedJsValuePassed(v) == [val |-> JsValueAsGo(v), err |-> NilValue]

\* The default branch: nil and "unsupported js value type: %s" with v.Type().
UnsupportedJsValue(v) ==
    [val |-> NilValue, err |-> JsError("unsupported js value type: " \o v.tag)]

RECURSIVE jsValueToAny(_, _, _)
\* jsValueToAny(v, targetType): (value, error) by the tag of v.
jsValueToAny(v, targetType, decls) ==
    CASE v.tag = "boolean" -> [val |-> BoolValue(v.n), err |-> NilValue]
      [] v.tag = "number" ->
            [val |-> NumberToAny(v, KindOf(decls, targetType)), err |-> NilValue]
      [] v.tag = "string" -> [val |-> StringValue(v.s), err |-> NilValue]
      [] v.tag = "object" ->
            LET conv == [key \in DOMAIN v.o |-> jsValueToAny(v.o[key], "any", decls)]
                bad == {key \in DOMAIN v.o : conv[key].err.t # "nil"}
            IN  IF bad # {}
                THEN [val |-> NilValue, err |-> conv[CHOOSE key \in bad : TRUE].err]
                ELSE JsonToTarget([key \in DOMAIN v.o |-> conv[key].val],
                                  targetType, decls)
      [] v.tag = "function" -> [val |-> JsValueAsGo(v), err |-> NilValue]
      [] v.tag \in {"undefined", "null"} -> [val |-> NilValue, err |-> NilValue]
      [] OTHER -> UnsupportedJsValue(v)

(***************************************************************************)
(* The bridge wrapper <name>Wrapper(this, p) at run time.  b is the state  *)
(* of one invocation; steps (the parameters whose statements ran, with the *)
(* outcome) and proxied (the calls of the native proxy, with their         *)
(* arguments) record what happened and are read by no statement.           *)
(***************************************************************************)
BridgeIdle ==
    [pc |-> "idle", stub |-> 0, p |-> <<>>, k |-> 0, vals |-> <<>>,
     steps |-> <<>>, proxied |-> <<>>, ret |-> NilValue,
     lookups |-> <<>>, allocated |-> <<>>, invoked |-> <<>>]

\* "expected %d arguments, got %d"
ArityError(paramCount, got) ==
    JsError("expected " \o ToString(paramCount) \o " arguments, got "
            \o ToString(got))

\* Variant of WrapperEnter: no check of len(p).
WrapperEnterNoCheck(i, p, stubs) ==
    [BridgeIdle EXCEPT !.stub = i, !.p = p, !.k = 1,
                       !.pc = IF stubs[i].paramCount = 0 THEN "proxy" ELSE "convert"]

\* The wrapper is called: if len(p) != paramCount, return the error.
WrapperEnter(i, p, stubs) ==
    IF Len(p) # stubs[i].paramCount
    THEN [BridgeIdle EXCEPT !.stub = i, !.p = p, !.pc = "returned",
                            !.ret = ArityError(stubs[i].paramCount, Len(p))]
    ELSE [BridgeIdle EXCEPT !.stub = i, !.p = p, !.k = 1,
                            !.pc = IF stubs[i].paramCount = 0 THEN "proxy"
                                   ELSE "convert"]

\* The statements of parameter k, as WrapperConvert has them, with the
\* returns left out: a failed conversion goes on with the zero value.
WrapperConvertNoReturn(b, stubs, decls) ==
    LET param == stubs[b.stub].params[b.k]
        r == jsValueToAny(b.p[b.k], param.type, decls)
        ok == r.err.t = "nil" /\ r.val.t = param.type
    IN  [b EXCEPT !.vals = Append(@, IF ok THEN r.val
                                      ELSE ZeroValue(decls, param.type)),
                  !.steps = Append(@, [k |-> b.k, in |-> b.p[b.k],
                                       target |-> param.type, out |-> r.val,
                                       err |-> r.err, ok |-> ok]),
                  !.k = @ + 1,
                  !.pc = IF b.k = Len(stubs[b.stub].params) THEN "proxy"
                         ELSE "convert"]

\* The statements of parameter k: <name>AsAny, err := jsValueToAny(p[k], T);
\* return an error if err != nil; <name>, ok := <name>AsAny.(T); return an
\* error if !ok.  (The text of the host error after "from js value: " is
\* left out.)
WrapperConvert(b, stubs, decls) ==
    LET param == stubs[b.stub].params[b.k]
        r == jsValueToAny(b.p[b.k], param.type, decls)
        step(ok) == [k |-> b.k, in |-> b.p[b.k], target |-> param.type,
                     out |-> r.val, err |-> r.err, ok |-> ok]
    IN  IF r.err.t # "nil"
        THEN [b EXCEPT !.pc = "returned", !.steps = Append(@, step(FALSE)),
                       !.ret = JsError("failed to make go type '" \o param.type
                                       \o "' from js value: ")]
        ELSE IF r.val.t # param.type
        THEN [b EXCEPT !.pc = "returned", !.steps = Append(@, step(FALSE)),
                       !.ret = JsError("parameter '" \o param.name
                                       \o "' is not in the received arguments")]
        ELSE [b EXCEPT !.vals = Append(@, r.val),
                       !.steps = Append(@, step(TRUE)),
                       !.k = @ + 1,
                       !.pc = IF b.k = Len(stubs[b.stub].params) THEN "proxy"
                              ELSE "convert"]

\* return <name>(<params>): the native proxy is called with the converted
\* values and what it returns is what the wrapper returns.
WrapperCallProxy(b, stubs, encodeFails, hostCallable) ==
    LET r == ProxyBody(stubs[b.stub], b.vals, encodeFails, hostCallable)
    IN  [b |-> [b EXCEPT !.pc = "returned", !.proxied = Append(@, [args |-> b.vals, ret |-> r.ret]),
                         !.ret = r.ret, !.lookups = r.lookups,
                         !.allocated = r.allocated, !.invoked = r.invoked],
         sent |-> r.sent]

(***************************************************************************)
(* The generator run (main) and what it leaves behind.                     *)
(***************************************************************************)
NoArtifact ==
    [status |-> "absent", decls |-> <<>>, functions |-> <<>>,
     cases |-> <<>>, stubs |-> <<>>, regs |-> <<>>]

\* main: os.Create of the output, parse, type map, catalog, then by mode the
\* rewriter and the generators, then writeCombinedTreeAndGenerated.  A panic
\* of a generator ends the run after the output file was created.
RunMain(tree, generatorType) ==
    LET typeMap   == extractTypeMap(tree)
        functions == extractFuncInfo(tree, typeMap)
        created   == [NoArtifact EXCEPT !.status = "created"]
    IN  IF generatorType = SERVER
        THEN IF ServerGenPanics(functions) THEN created
             ELSE [status    |-> "written",
                   decls     |-> modifyOriginalFunctions(tree),
                   functions |-> functions,
                   cases     |-> generateServerReceiver(functions),
                   stubs     |-> <<>>,
                   regs      |-> <<>>]
        ELSE IF ClientGenPanics(functions) THEN created
             ELSE [status    |-> "written",
                   decls     |-> removeOriginalAndUnexportedFunctions(tree),
                   functions |-> functions,
                   cases     |-> <<>>,
                   stubs     |-> [i \in 1..Len(functions) |->
                                    generateNewClientFunc(functions[i])],
                   regs      |-> generateClientMain(functions)]

\* The steps of a run that can fail for reasons outside the generator:
\* os.Create of the output, os.Open of the input, the parse of the input,
\* and render, parse, restore or format of the generated fragment.
Faults == {"none", "create", "open", "parse", "fragment"}

\* time.Now().Format("2006-01-02") and time.Now().Format("15:04:05")
DateOf(t) == "2024-01-0" \o ToString(1 + t \div 2)
ClockOf(t) == "00:00:0" \o ToString(t % 2)

\* No output file.
NoFile == [exists |-> FALSE, content |-> <<>>]

\* Variant of OsCreate: an existing file is opened as it is, for appending.
OsCreateAppend(file) == [exists |-> TRUE, content |-> file.content]

\* os.Create: the file exists afterwards and is empty.
OsCreate(file) == [exists |-> TRUE, content |-> <<>>]

\* writer.Write(formattedFile)
Write(file, bytes) == [file EXCEPT !.content = Append(@, bytes)]

\* filePrefix of writeCombinedTreeAndGenerated: the build constraint of the
\* variant; the server gets none.
FilePrefixTag(genType) ==
    IF genType = SERVER THEN ""
    ELSE "//go:build js && wasm && client"

\* The import path of the codec package.
ProtocolPath == "github.com/codeupdateandmodificationsystem/protocol"

\* genDst.Decls: the declarations of the rendered and re-parsed generated
\* file.  Its import block has one spec per package the generators qualify
\* a name with (a package outside the standard library is rendered with its
\* local name); then come the functions in the order main adds them.
GenDst(generated, genType) ==
    LET std(path) == ImportSpec("", path, FALSE)
        protocol == ImportSpec("protocol", ProtocolPath, FALSE)
        infos == generated.functions
        reflects == \E i \in 1..Len(infos) : \E j \in 1..Len(infos[i].Params) :
                        infos[i].Params[j].IsStruct
        fn(name) == FuncDecl(name, <<>>, <<>>)
    IN  IF genType = SERVER
        THEN <<ImportDecl(<<std("errors"), std("fmt"), protocol>>
                          \o (IF reflects THEN <<std("reflect")>> ELSE <<>>)),
               fn("AgrowsReceive")>>
        ELSE <<ImportDecl(<<std("encoding/json"), std("fmt")>>
                          \o (IF Len(infos) > 0 THEN <<protocol>> ELSE <<>>)
                          \o <<std("reflect"), std("syscall/js")>>),
               fn("jsValueToAny")>>
             \o FlatMap([i \in 1..Len(generated.stubs) |->
                            <<fn(generated.stubs[i].proxy),
                              fn(generated.stubs[i].wrapper)>>], 1)
             \o <<fn("sendMessage"), fn("main")>>

\* Variant of rebuildImportSpec: both variants keep the imports of the
\* original file.
rebuildImportSpecBoth(sourceImportSpecs, genImportSpecs, genType) ==
    ImportDecl(sourceImportSpecs \o genImportSpecs)

\* rebuildImportSpec: one import block; the server appends the generated
\* specs to those of the original file, the client keeps the generated ones.
rebuildImportSpec(sourceImportSpecs, genImportSpecs, genType) ==
    IF genType = SERVER
    THEN ImportDecl(sourceImportSpecs \o genImportSpecs)
    ELSE ImportDecl(genImportSpecs)

\* combined.Decls: the import block, then the declarations of the tree and
\* of the generated file that are no import declarations.
rebuildCombinedDecls(tree, genDst, genType) ==
    LET isImport(d) == d.node = "GenDecl" /\ d.Tok = "import"
        specsOf(decls) ==
            FlatMap([i \in 1..Len(decls) |->
                        IF isImport(decls[i]) THEN decls[i].Specs ELSE <<>>], 1)
        all == tree \o genDst
        declsWithoutImports ==
            FlatMap([i \in 1..Len(all) |->
                        IF isImport(all[i]) THEN <<>> ELSE <<all[i]>>], 1)
    IN  <<rebuildImportSpec(specsOf(tree), specsOf(genDst), genType)>>
        \o declsWithoutImports

\* format.Source sorts the import block (ast.SortImports): the specs of a
\* run, i.e. of successive lines, are sorted by path and local name, and of
\* specs with the same path and the same local name one is kept.  A run ends
\* where an empty line follows.  The result is the sequence of the runs, each
\* the set of its specs (a sorted list without duplicates).
SortImports(specs) ==
    LET runOf(i) == Cardinality({j \in 2..i : specs[j].Gap})
    IN  IF Len(specs) = 0 THEN <<>>
        ELSE [r \in 1..(runOf(Len(specs)) + 1) |->
                {[Name |-> specs[i].Name, Path |-> specs[i].Path] :
                    i \in {j \in 1..Len(specs) : runOf(j) = r - 1}}]

\* writeCombinedTreeAndGenerated: the text handed to the writer, kept as
\* its parts: the build constraint, the header with the date and the time
\* of the run, the merged declarations (combined.Decls), and the import
\* block and the declared names of the formatted text.
writeCombinedTreeAndGenerated(generated, genType, t) ==
    LET combined == rebuildCombinedDecls(generated.decls,
                                         GenDst(generated, genType), genType)
    IN  [tag      |-> FilePrefixTag(genType),
         header   |-> "Code generated by agrows. DO NOT EDIT :)",
         date     |-> DateOf(t),
         time     |-> ClockOf(t),
         body     |-> [generated EXCEPT !.status = ""],
         combined |-> combined,
         imports  |-> SortImports(combined[1].Specs)]

\* main, with the output file: os.Create comes first, then the input is
\* opened and parsed, the code is generated and the text is written.  A
\* failed step ends the process (log.Errorf(true, ...)).
MainRun(tree, generatorType, fault, t, file) ==
    IF fault = "create" THEN [status |-> "failed", file |-> file]
    ELSE LET output == OsCreate(file)
             generated == RunMain(tree, generatorType)
         IN  IF fault \in {"open", "parse"} \/ generated.status # "written"
                \/ fault = "fragment"
             THEN [status |-> "failed", file |-> output]
             ELSE [status |-> "written",
                   file |-> Write(output,
                                  writeCombinedTreeAndGenerated(
                                      generated, generatorType, t))]

(***************************************************************************)
(* State                                                                   *)
(***************************************************************************)
VARIABLES
    input,      \* the parsed input file
    artifact,   \* per mode: what a generator run emitted
    client,     \* the last call of a native proxy and what it returned
    wire,       \* the payload the client handed to the transport
    disp,       \* the invocation of AgrowsReceive in progress
    host,       \* the client's main and the host global namespace
    bridge,     \* the invocation of a bridge wrapper in progress
    fs,         \* per mode: the output file of the generator
    now,        \* the clock the generator reads
    runs,       \* the generator runs so far, with what each left behind
    invs        \* the concurrent invocations of AgrowsReceive

vars == <<input, artifact, client, wire, disp, host, bridge, fs, now, runs, invs>>

bridgeVars == <<host, bridge>>
genVars == <<fs, now, runs>>

\* The client's main has not started; nothing is registered.
HostOff == [pc |-> "off", k |-> 0, globals |-> <<>>, sendMessage |-> "undefined"]

Init ==
    /\ input \in Sources
    /\ artifact = [m \in Modes |-> NoArtifact]
    /\ client = ClientIdle
    /\ wire = NoPayload
    /\ disp = DispIdle
    /\ host = HostOff
    /\ bridge = BridgeIdle
    /\ fs = [m \in Modes |-> NoFile]
    /\ now = 0
    /\ runs = <<>>
    /\ invs = <<>>

\* One run of the generator in a mode.
Main(generatorType) ==
    /\ artifact[generatorType].status = "absent"
    /\ artifact' = [artifact EXCEPT ![generatorType] = RunMain(input, generatorType)]
    /\ UNCHANGED <<input, client, wire, disp, bridgeVars, genVars, invs>>

ServerRuns ==
    /\ artifact[SERVER].status = "written"
    /\ ServerBuilds(artifact[SERVER].cases, artifact[SERVER].decls)

ClientRuns == artifact[CLIENT].status = "written"

\* A native caller calls the proxy of a catalog function.
ProxyCall ==
    /\ ClientRuns
    /\ client.pc = "idle" /\ ~wire.present /\ disp.pc = "idle"
    /\ \E i \in 1..Len(artifact[CLIENT].stubs) :
         LET stub == artifact[CLIENT].stubs[i]
         IN  \E vals \in ArgTuples(stub.params, 1, input),
                encodeFails \in BOOLEAN, hostCallable \in BOOLEAN :
               LET r == ProxyBody(stub, vals, encodeFails, hostCallable)
               IN  /\ client' = [pc |-> "returned", fn |-> stub.proxy,
                                 vals |-> vals, ret |-> r.ret]
                   /\ wire' = r.sent
    /\ UNCHANGED <<input, artifact, disp, bridgeVars, genVars, invs>>

\* The native caller takes the result of the proxy.
ProxyReturn ==
    /\ client.pc = "returned"
    /\ client' = ClientIdle
    /\ UNCHANGED <<input, artifact, wire, disp, bridgeVars, genVars, invs>>

\* The transport delivers the payload of the client to AgrowsReceive.
ReceiveFromWire ==
    /\ ServerRuns
    /\ disp.pc = "idle" /\ client.pc = "idle" /\ wire.present
    /\ disp' = Receive(wire, "wire", artifact[SERVER].cases, artifact[SERVER].decls)
    /\ wire' = NoPayload
    /\ UNCHANGED <<input, artifact, client, bridgeVars, genVars, invs>>

\* Some caller hands any payload to AgrowsReceive.
ReceiveRaw ==
    /\ ServerRuns
    /\ disp.pc = "idle" /\ client.pc = "idle" /\ ~wire.present
    /\ \E data \in RawPayloads(artifact[SERVER].cases, artifact[SERVER].decls) :
         disp' = Receive(data, "raw", artifact[SERVER].cases,
                         artifact[SERVER].decls)
    /\ UNCHANGED <<input, artifact, client, wire, bridgeVars, genVars, invs>>

DispDecodeParam ==
    /\ disp.pc = "param"
    /\ disp' = DecodeParam(disp, artifact[SERVER].cases, artifact[SERVER].decls)
    /\ UNCHANGED <<input, artifact, client, wire, bridgeVars, genVars, invs>>

DispInvoke ==
    /\ disp.pc = "call"
    /\ \E rets \in ImplResults(artifact[SERVER].cases[disp.case],
                               artifact[SERVER].decls) :
         disp' = Invoke(disp, artifact[SERVER].cases, rets)
    /\ UNCHANGED <<input, artifact, client, wire, bridgeVars, genVars, invs>>

DispFormatReply ==
    /\ disp.pc = "reply"
    /\ disp' = FormatReply(disp, artifact[SERVER].cases, artifact[SERVER].decls)
    /\ UNCHANGED <<input, artifact, client, wire, bridgeVars, genVars, invs>>

\* AgrowsReceive has returned (or the goroutine has panicked); the next
\* payload gets a new invocation.
DispDone ==
    /\ disp.pc \in {"returned", "panicked"}
    /\ disp' = DispIdle
    /\ UNCHANGED <<input, artifact, client, wire, bridgeVars, genVars, invs>>

Next ==
    \/ \E m \in Modes : Main(m)
    \/ ProxyCall
    \/ ProxyReturn
    \/ ReceiveFromWire
    \/ ReceiveRaw
    \/ DispDecodeParam
    \/ DispInvoke
    \/ DispFormatReply
    \/ DispDone

Spec == Init /\ [][Next]_vars

(***************************************************************************)
(* The client at run time: main registers the wrappers and parks; the host *)
(* calls the registered wrappers with arrays of bridge values.             *)
(***************************************************************************)
\* The declarations the input files of the client runs are made of.
BridgePool ==
    { TypeDecl("CalcInput", StructType(<<"A", "B">>)),
      FuncDecl("Greet", <<Field(<<"name">>, Ident("string"))>>,
                        <<Field(<<>>, Ident("string"))>>),
      FuncDecl("Sum", <<Field(<<"a", "b">>, Ident("int"))>>,
                      <<Field(<<>>, Ident("int")), Field(<<>>, Ident("error"))>>),
      FuncDecl("CrazyMath", <<Field(<<"inp">>, Ident("CalcInput"))>>,
                            <<Field(<<>>, Ident("string"))>>),
      FuncDecl("Shrink", <<Field(<<"n">>, Ident("int32"))>>,
                         <<Field(<<>>, Ident("int32"))>>),
      FuncDecl("Count", <<Field(<<"u">>, Ident("uint8"))>>,
                        <<Field(<<>>, Ident("int"))>>),
      FuncDecl("Ratio", <<Field(<<"f">>, Ident("float64"))>>,
                        <<Field(<<>>, Ident("float64"))>>),
      FuncDecl("helper", <<Field(<<"x">>, Ident("int"))>>,
                         <<Field(<<>>, Ident("int"))>>),
      FuncDecl("Ping", <<>>, <<>>) }

BridgeSources ==
    {s \in SeqsUpTo(BridgePool, MaxDecls) :
        \A i, j \in 1..Len(s) : i # j => s[i] # s[j]}

\* The bridge values a host passes: numbers with and without fraction, of
\* both signs, a string, a boolean, null, undefined, a function, a symbol,
\* and objects whose members fit or do not fit the fields of CalcInput or
\* cannot be converted.
JsValues ==
    { JsNumber(37), JsNumber(-37), JsNumber(20), JsString("Ada"), JsNull,
      JsSymbol, JsBoolean(TRUE), JsUndefined, JsFunction,
      JsObject([x \in {"A"} |-> JsSymbol]),
      JsObject([x \in {"A", "B"} |-> IF x = "A" THEN JsNumber(20) ELSE JsNumber(30)]),
      JsObject([x \in {"A"} |-> JsNumber(37)]) }

RECURSIVE JsTuples(_)
JsTuples(n) ==
    IF n = 0 THEN {<<>>}
    ELSE {Append(t, v) : t \in JsTuples(n - 1), v \in JsValues}

\* The argument arrays a host calls a wrapper of n parameters with: every
\* array of n values, those with the last value dropped, and those with a
\* value added.
JsArgArrays(n) ==
    JsTuples(n)
    \cup (IF n > 0 THEN {SubSeq(t, 1, n - 1) : t \in JsTuples(n)} ELSE {})
    \cup {Append(t, JsNull) : t \in JsTuples(n)}

BridgeInit ==
    /\ input \in BridgeSources
    /\ artifact = [m \in Modes |-> NoArtifact]
    /\ client = ClientIdle
    /\ wire = NoPayload
    /\ disp = DispIdle
    /\ host \in {[HostOff EXCEPT !.sendMessage = t] : t \in {"function", "undefined"}}
    /\ bridge = BridgeIdle
    /\ fs = [m \in Modes |-> NoFile]
    /\ now = 0
    /\ runs = <<>>
    /\ invs = <<>>

\* main of the client starts: global := js.Global().
ClientMainStart ==
    /\ ClientRuns
    /\ host.pc = "off"
    /\ host' = [host EXCEPT !.pc = "registering", !.k = 1]
    /\ UNCHANGED <<input, artifact, client, wire, disp, bridge, genVars, invs>>

\* global.Set(<name>, js.FuncOf(<name>Wrapper)) of the next catalog entry.
ClientMainRegister ==
    /\ host.pc = "registering"
    /\ host.k <= Len(artifact[CLIENT].regs)
    /\ host' = [host EXCEPT !.globals = Append(@, artifact[CLIENT].regs[host.k]),
                            !.k = @ + 1]
    /\ UNCHANGED <<input, artifact, client, wire, disp, bridge, genVars, invs>>

\* select {}: main blocks for good.
ClientMainPark ==
    /\ host.pc = "registering"
    /\ host.k > Len(artifact[CLIENT].regs)
    /\ host' = [host EXCEPT !.pc = "parked"]
    /\ UNCHANGED <<input, artifact, client, wire, disp, bridge, genVars, invs>>

\* The wrapper the host finds under a global name: the last one set.
GlobalGet(name) ==
    LET idx == {i \in 1..Len(host.globals) : host.globals[i].global = name}
    IN  host.globals[CHOOSE i \in idx : \A j \in idx : j <= i].wrapper

\* The host calls a registered global with an array of bridge values; the
\* event loop of the host runs it once main is blocked.
WrapperCall ==
    /\ host.pc = "parked"
    /\ bridge.pc = "idle" /\ ~wire.present
    /\ \E g \in 1..Len(host.globals) :
         LET w == GlobalGet(host.globals[g].global)
             i == CHOOSE j \in 1..Len(artifact[CLIENT].stubs) :
                     artifact[CLIENT].stubs[j].wrapper = w
         IN  \E p \in JsArgArrays(artifact[CLIENT].stubs[i].paramCount) :
               bridge' = WrapperEnter(i, p, artifact[CLIENT].stubs)
    /\ UNCHANGED <<input, artifact, client, wire, disp, host, genVars, invs>>

WrapperStep ==
    /\ bridge.pc = "convert"
    /\ bridge' = WrapperConvert(bridge, artifact[CLIENT].stubs,
                                artifact[CLIENT].decls)
    /\ UNCHANGED <<input, artifact, client, wire, disp, host, genVars, invs>>

WrapperProxy ==
    /\ bridge.pc = "proxy"
    /\ \E encodeFails \in BOOLEAN :
         LET r == WrapperCallProxy(bridge, artifact[CLIENT].stubs, encodeFails,
                                   host.sendMessage = "function")
         IN  /\ bridge' = r.b
             /\ wire' = r.sent
    /\ UNCHANGED <<input, artifact, client, disp, host, genVars, invs>>

\* The host takes what the wrapper returned.
WrapperReturn ==
    /\ bridge.pc = "returned"
    /\ bridge' = BridgeIdle
    /\ UNCHANGED <<input, artifact, client, wire, disp, host, genVars, invs>>

\* The transport takes the payload the host callable got.
TransportTakes ==
    /\ wire.present /\ bridge.pc = "idle"
    /\ wire' = NoPayload
    /\ UNCHANGED <<input, artifact, client, disp, bridgeVars, genVars, invs>>

BridgeNext ==
    \/ Main(CLIENT)
    \/ ClientMainStart
    \/ ClientMainRegister
    \/ ClientMainPark
    \/ WrapperCall
    \/ WrapperStep
    \/ WrapperProxy
    \/ WrapperReturn
    \/ TransportTakes

BridgeSpec == BridgeInit /\ [][BridgeNext]_vars

(***************************************************************************)
(* Properties                                                              *)
(***************************************************************************)
Srv == artifact[SERVER]
Cli == artifact[CLIENT]

\* The exported function declarations of the input, in file order.
ExportedFuncs ==
    SelectSeq(input, LAMBDA d : d.node = "FuncDecl" /\ IsExported(d.Name))

\* AgrowsReceive has ended, by a return or by a panic.
Terminated == disp.pc \in {"returned", "panicked"}

\* C1: every exported function of the input has exactly one dispatcher case
\* and exactly one client stub pair, the i-th function the i-th case and the
\* i-th pair; the case key, the name the proxy encodes and the name the
\* wrapper is registered under are the function's original name.
C1_OneCaseOneStubByOriginalName ==
    /\ Srv.status = "written" =>
          /\ Len(Srv.cases) = Len(ExportedFuncs)
          /\ \A i \in 1..Len(ExportedFuncs) :
                Srv.cases[i].key = ExportedFuncs[i].Name
    /\ Cli.status = "written" =>
          /\ Len(Cli.stubs) = Len(ExportedFuncs)
          /\ Len(Cli.regs) = Len(ExportedFuncs)
          /\ \A i \in 1..Len(ExportedFuncs) :
                /\ Cli.stubs[i].proxy = ExportedFuncs[i].Name
                /\ Cli.stubs[i].encodedName = ExportedFuncs[i].Name
                /\ Cli.regs[i].global = ExportedFuncs[i].Name
                /\ Cli.regs[i].wrapper = Cli.stubs[i].wrapper

\* Both artifacts of an input with two functions, one of them unexported.
C1_Witness ==
    /\ Srv.status = "written" /\ Cli.status = "written"
    /\ Len(Srv.cases) = 1 /\ Len(Cli.stubs) = 1
    /\ \E i \in 1..Len(input) :
          input[i].node = "FuncDecl" /\ ~IsExported(input[i].Name)

\* C2: a decoded function name that is no catalog function's original name
\* ends the dispatcher with an empty reply and an error whose text contains
\* the name, and no implementation was called.
C2_UnknownNameErrors ==
    (/\ disp.pc # "idle"
     /\ disp.data.wf
     /\ \A i \in 1..Len(ExportedFuncs) : ExportedFuncs[i].Name # disp.data.name)
    => /\ disp.pc = "returned"
       /\ disp.reply = ""
       /\ disp.err # NilValue
       /\ Contains(disp.err.s, disp.data.name)
       /\ disp.calls = <<>>

\* The dispatcher of a file with an exported function was given the name
\* that function carries after the rename, which is no case key.
C2_Witness ==
    /\ disp.pc = "returned"
    /\ Len(Srv.cases) >= 1
    /\ disp.data.wf
    /\ disp.data.name = ModifiedName(Srv.cases[1].key)
    /\ disp.err # NilValue

\* A primitive parameter of a case decodes from a table: it is there and its
\* value has the declared type.
PrimitiveDecodes(p, args) ==
    p.name \in DOMAIN args /\ args[p.name].t = p.type

TheCase == Srv.cases[disp.case]
Present(p) == p.name \in DOMAIN disp.data.args
WireValue(p) == disp.data.args[p.name]

\* The statements of a parameter have what they need in the table: the
\* entry is there and, for a primitive parameter, has the declared type.
Decodable(p) == Present(p) /\ (~p.isStruct => WireValue(p).t = p.type)

\* C4: whatever the payload and the classification of the parameters, the
\* dispatcher ends by returning; it never panics.
C4_NeverPanics == disp.pc # "panicked"

\* C5: when the table has no entry for a declared parameter, primitive or
\* aggregate, (and the parameters before it decode) the dispatcher returns
\* an error naming that parameter and calls no implementation.
C5_MissingParamNamed ==
    (Terminated /\ disp.case # 0) =>
        \A j \in 1..Len(TheCase.params) :
            (/\ ~Present(TheCase.params[j])
             /\ \A i \in 1..(j - 1) : Decodable(TheCase.params[i]))
            => /\ disp.pc = "returned"
               /\ disp.err # NilValue
               /\ Contains(disp.err.s, TheCase.params[j].name)
               /\ disp.calls = <<>>

\* C6: when the wire value of a primitive parameter has another dynamic type
\* than the declared one (and the parameters before it decode), the error
\* returned names the wire value's reported type and the declared type.
C6_CastErrorNamesBothTypes ==
    (disp.pc = "returned" /\ disp.case # 0) =>
        \A j \in 1..Len(TheCase.params) :
            (/\ ~TheCase.params[j].isStruct
             /\ Present(TheCase.params[j])
             /\ WireValue(TheCase.params[j]).t # TheCase.params[j].type
             /\ \A i \in 1..(j - 1) : Decodable(TheCase.params[i]))
            => /\ disp.err # NilValue
               /\ Contains(disp.err.s, disp.args[TheCase.params[j].name].Typ)
               /\ Contains(disp.err.s, TheCase.params[j].type)

\* The instance of a record type an aggregate parameter is meant to get:
\* every field from the same-named field of the wire value, zero without.
Projected(wireValue, typeName) ==
    StructValue(typeName,
        [x \in Range(FieldsOf(Srv.decls, typeName)) |->
            IF x \in DOMAIN wireValue.f THEN wireValue.f[x] ELSE 0])

\* C7: the value an aggregate parameter passes to the implementation is a
\* new instance of the target type with every field taken from the
\* same-named field of the wire value, zero where the wire value has none;
\* fields the target does not declare have no effect.
C7_AggregateFieldsCopied ==
    (/\ Terminated /\ disp.case # 0
     /\ \E j \in 1..Len(TheCase.params) : TheCase.params[j].isStruct
     /\ \A j \in 1..Len(TheCase.params) :
           /\ Decodable(TheCase.params[j])
           /\ TheCase.params[j].isStruct =>
                 WireValue(TheCase.params[j]).k \in {"struct", "map"})
    => /\ disp.pc = "returned"
       /\ Len(disp.calls) = 1
       /\ \A j \in 1..Len(TheCase.params) :
             TheCase.params[j].isStruct =>
                 disp.calls[1].args[j] =
                     Projected(WireValue(TheCase.params[j]), TheCase.params[j].type)

\* The declared result types of the implementation a case calls.
ResultTypes ==
    ValueTypes(Srv.decls[CHOOSE i \in FuncsNamed(Srv.decls, TheCase.callee) : TRUE].Results)

\* The implementation has returned and AgrowsReceive has formatted its reply.
Replied == disp.pc = "returned" /\ Len(disp.calls) = 1

NonNilErrors == {i \in 1..Len(disp.rets) : ResultTypes[i] = "error" /\ disp.rets[i] # NilValue}
StringResults == {i \in 1..Len(disp.rets) : ResultTypes[i] = "string"}

\* C8: after the implementation returns, a non-nil error result makes the
\* reply ("", that error) whatever the other results; otherwise a string
\* result is the reply as it is, with a nil error.
C8_ReplySelection ==
    Replied =>
        /\ \A i \in NonNilErrors : disp.reply = "" /\ disp.err = disp.rets[i]
        /\ NonNilErrors = {} =>
              \A i \in StringResults :
                  disp.reply = disp.rets[i].s /\ disp.err = NilValue

\* An implementation with a string and an error result returned a non-nil
\* error.
C8_Witness ==
    Replied /\ NonNilErrors # {} /\ StringResults # {} /\ disp.reply = ""

RECURSIVE QuotedNonErrors(_)
\* The results that are not of type error, each quoted, joined by commas.
QuotedNonErrors(i) ==
    IF i > Len(disp.rets) THEN ""
    ELSE IF ResultTypes[i] = "error" THEN QuotedNonErrors(i + 1)
    ELSE "'" \o FormatPlusV(disp.rets[i], Srv.decls) \o "'"
         \o (IF \E j \in (i + 1)..Len(disp.rets) : ResultTypes[j] # "error"
             THEN ", " ELSE "")
         \o QuotedNonErrors(i + 1)

\* C9: with no non-nil error and no string result, the reply is the list of
\* the results that are not errors, in declared order, each quoted, joined
\* by commas; an error result adds no element.
C9_ReplyListsNonErrorsOnly ==
    (Replied /\ NonNilErrors = {} /\ StringResults = {} /\ Len(disp.rets) > 0)
    => disp.reply = QuotedNonErrors(1) /\ disp.err = NilValue

\* C10: a payload the native proxy made for argument values vals, decoded by
\* the dispatcher, ends in one call of the renamed implementation with vals,
\* parameter by parameter; the payload carries the original name and a table
\* keyed by exactly the declared parameter names.
C10_RoundTrip ==
    /\ (client.pc = "returned" /\ wire.present) =>
          \E i \in 1..Len(ExportedFuncs) :
              /\ client.fn = ExportedFuncs[i].Name
              /\ wire.name = ExportedFuncs[i].Name
              /\ DOMAIN wire.args = Range(Cli.stubs[i].tableKeys)
              /\ \A j \in 1..Len(Cli.stubs[i].params) :
                    wire.args[Cli.stubs[i].params[j].name] = client.vals[j]
    /\ (Cli.status = "written" /\ Terminated /\ disp.via = "wire") =>
        /\ \E i \in 1..Len(ExportedFuncs) : disp.data.name = ExportedFuncs[i].Name
        /\ \A i \in 1..Len(Cli.stubs) :
              disp.data.name = Cli.stubs[i].proxy =>
                  /\ DOMAIN disp.data.args =
                        {Cli.stubs[i].params[j].name : j \in 1..Len(Cli.stubs[i].params)}
                  /\ disp.calls =
                        <<[callee |-> ModifiedName(Cli.stubs[i].proxy),
                           args |-> [j \in 1..Len(Cli.stubs[i].params) |->
                                        disp.data.args[Cli.stubs[i].params[j].name]]]>>

(***************************************************************************)
(* The generator on files with imports, methods, grouped results, calls    *)
(* between functions and type expressions of every shape.                  *)
(***************************************************************************)
EmitPool ==
    { ImportDecl(<<ImportSpec("", "strings", FALSE)>>),
      ImportDecl(<<ImportSpec("", "fmt", FALSE)>>),
      ImportDecl(<<ImportSpec("f", "fmt", FALSE)>>),
      ImportDecl(<<ImportSpec("", "fmt", FALSE), ImportSpec("", "os", TRUE)>>),
      TypeDecl("CalcInput", StructType(<<"A", "B">>)),
      TypeDecl("Celsius", Ident("int")),
      FuncDecl("Sum", <<Field(<<"a", "b">>, Ident("int"))>>,
                      <<Field(<<>>, Ident("int")), Field(<<>>, Ident("error"))>>),
      Method("CalcInput", "Sum", <<>>, <<Field(<<>>, Ident("int"))>>),
      FuncDecl("Div", <<Field(<<"a", "b">>, Ident("int"))>>,
                      <<Field(<<"q", "r">>, Ident("int")),
                        Field(<<"err">>, Ident("error"))>>),
      FuncDecl("Warm", <<Field(<<"c">>, Ident("Celsius")),
                         Field(<<"inp">>, Ident("CalcInput"))>>,
                       <<Field(<<>>, Ident("string"))>>),
      FuncDecl("Area", <<Field(<<"r">>, StructType(<<"W", "H">>))>>,
                       <<Field(<<>>, Ident("int"))>>),
      FuncDecl("Total", <<Field(<<"xs">>, OtherExpr("ArrayType")),
                          Field(<<"m">>, OtherExpr("MapType"))>>,
                        <<Field(<<>>, Ident("int"))>>),
      FuncDecl("Origin", <<Field(<<"t">>, OtherExpr("SelectorExpr"))>>,
                         <<Field(<<>>, OtherExpr("StarExpr"))>>),
      FuncDecl("Double", <<Field(<<"x">>, Ident("int"))>>,
                         <<Field(<<>>, Ident("int"))>>),
      [FuncDecl("Twice", <<Field(<<"x">>, Ident("int"))>>,
                         <<Field(<<>>, Ident("int"))>>)
          EXCEPT !.Body = <<"Double">>],
      [FuncDecl("helper", <<Field(<<"x">>, Ident("int"))>>,
                          <<Field(<<>>, Ident("int"))>>)
          EXCEPT !.Body = <<"Double">>] }

\* A file the Go compiler accepts: the import declarations come first and
\* no two of their specs have the same path and local name; no two types, no two plain functions and no two methods of one receiver have
\* the same name; the receiver of a method is a type of the file; a function
\* a body calls is a plain function of the file.
ValidSource(s) ==
    LET isImport(i) == s[i].node = "GenDecl" /\ s[i].Tok = "import"
        sameSpace(i, j) == /\ s[i].node = s[j].node /\ s[i].Tok = s[j].Tok
                           /\ s[i].Recv = s[j].Recv
        specs == FlatMap([i \in 1..Len(s) |->
                             IF isImport(i) THEN s[i].Specs ELSE <<>>], 1)
    IN  /\ \A i, j \in 1..Len(s) : (i < j /\ isImport(j)) => isImport(i)
        /\ \A i, j \in 1..Len(specs) :
              (i # j /\ specs[i].Path = specs[j].Path) =>
                  specs[i].Name # specs[j].Name
        /\ \A i, j \in 1..Len(s) :
              (i # j /\ ~isImport(i) /\ sameSpace(i, j)) => s[i].Name # s[j].Name
        /\ \A i \in 1..Len(s) :
              (s[i].node = "FuncDecl" /\ s[i].Recv # "") =>
                  \E j \in 1..Len(s) : /\ s[j].node = "GenDecl" /\ s[j].Tok = "type"
                                       /\ s[j].Name = s[i].Recv
        /\ \A i \in 1..Len(s) : \A k \in 1..Len(s[i].Body) :
              \E j \in 1..Len(s) : /\ s[j].node = "FuncDecl" /\ s[j].Recv = ""
                                   /\ s[j].Name = s[i].Body[k]

EmitSources ==
    {s \in SeqsUpTo(EmitPool, MaxEmitDecls) :
        /\ \A i, j \in 1..Len(s) : i # j => s[i] # s[j]
        /\ ValidSource(s)}

\* main up to the text handed to the writer: the type map and the catalog
\* are built first; the generators and the merge follow, unless a generator
\* panics.
EmitMain(tree, generatorType, t) ==
    LET typeMap   == extractTypeMap(tree)
        generated == RunMain(tree, generatorType)
    IN  [status    |-> generated.status,
         typeMap   |-> typeMap,
         functions |-> extractFuncInfo(tree, typeMap),
         decls     |-> generated.decls,
         cases     |-> generated.cases,
         stubs     |-> generated.stubs,
         text      |-> IF generated.status = "written"
                       THEN writeCombinedTreeAndGenerated(generated,
                                                          generatorType, t)
                       ELSE [combined |-> <<>>, imports |-> <<>>]]

EmitInit ==
    /\ input \in EmitSources
    /\ artifact = [m \in Modes |-> NoArtifact]
    /\ client = ClientIdle
    /\ wire = NoPayload
    /\ disp = DispIdle
    /\ host = HostOff
    /\ bridge = BridgeIdle
    /\ fs = [m \in Modes |-> NoFile]
    /\ now = 0
    /\ runs = <<>>
    /\ invs = <<>>

\* One run of the generator in a mode.
EmitRun(generatorType) ==
    /\ artifact[generatorType].status = "absent"
    /\ artifact' = [artifact EXCEPT
                       ![generatorType] = EmitMain(input, generatorType, now)]
    /\ UNCHANGED <<input, client, wire, disp, bridgeVars, genVars, invs>>

EmitNext == \E m \in Modes : EmitRun(m)

EmitSpec == EmitInit /\ [][EmitNext]_vars

(***************************************************************************)
(* The generator run by run, with its output files and the clock.          *)
(***************************************************************************)
GenSources == {s \in Sources : Len(s) <= MaxGenDecls}

\* An output file a run of some other day left behind.
OldFile ==
    [exists |-> TRUE,
     content |-> <<[tag |-> "", header |-> "", date |-> "2023-12-31",
                    time |-> "23:59:59", body |-> NoArtifact,
                    combined |-> <<>>, imports |-> <<>>]>>]

GenInit ==
    /\ input \in GenSources
    /\ artifact = [m \in Modes |-> NoArtifact]
    /\ client = ClientIdle
    /\ wire = NoPayload
    /\ disp = DispIdle
    /\ host = HostOff
    /\ bridge = BridgeIdle
    /\ fs \in {[m \in Modes |-> NoFile], [m \in Modes |-> OldFile]}
    /\ now = 0
    /\ runs = <<>>
    /\ invs = <<>>

\* One run of the generator on the input in a mode, to the default output
\* file of the mode.
GenRun(generatorType) ==
    /\ Len(runs) < MaxRuns
    /\ \E fault \in Faults :
         LET r == MainRun(input, generatorType, fault, now, fs[generatorType])
         IN  /\ fs' = [fs EXCEPT ![generatorType] = r.file]
             /\ runs' = Append(runs, [mode |-> generatorType, fault |-> fault,
                                      status |-> r.status,
                                      before |-> fs[generatorType],
                                      after |-> r.file])
    /\ UNCHANGED <<input, artifact, client, wire, disp, bridgeVars, now, invs>>

\* Time passes.
Tick ==
    /\ now < MaxClock
    /\ now' = now + 1
    /\ UNCHANGED <<input, artifact, client, wire, disp, bridgeVars, fs, runs, invs>>

GenNext ==
    \/ \E m \in Modes : GenRun(m)
    \/ Tick

GenSpec == GenInit /\ [][GenNext]_vars

(***************************************************************************)
(* Concurrent invocations of AgrowsReceive.  Every variable of the         *)
(* generated function is declared inside it (":=" and the var block of    *)
(* the case), so every invocation has variables of its own; invs.vars[v]   *)
(* holds the variables of frame v and invs.go[i] the position of           *)
(* invocation i, with what it got from the implementation (chosen) and     *)
(* what it ended with (result).                                            *)
(***************************************************************************)
Goroutines == 1..2

\* Variant of VarsOf: the variables declared once, at package level.
VarsOfPackage(i) == 1

\* The frame that holds the variables of invocation i.
VarsOf(i) == i

\* The variables of the generated function.
Locals(d) ==
    [functionName |-> d.functionName, args |-> d.args, paramArg |-> d.paramArg,
     param |-> d.param, ok |-> d.ok, rets |-> d.rets, reply |-> d.reply,
     err |-> d.err]

\* What an invocation ended with: the values it returned, or the panic.
Outcome(d) ==
    IF d.pc = "returned" THEN [pc |-> d.pc, reply |-> d.reply, err |-> d.err]
    ELSE [pc |-> d.pc, reply |-> "", err |-> NilValue]

\* The position of an invocation, and what is recorded of it.
Own(d, chosen) ==
    [pc |-> d.pc, data |-> d.data, case |-> d.case, k |-> d.k, via |-> d.via,
     decoded |-> d.decoded, calls |-> d.calls, chosen |-> chosen,
     result |-> Outcome(d)]

\* The invocation as the statements see it: its position and its variables.
Frame(g, l) ==
    [pc |-> g.pc, data |-> g.data, functionName |-> l.functionName,
     args |-> l.args, case |-> g.case, k |-> g.k, paramArg |-> l.paramArg,
     param |-> l.param, ok |-> l.ok, rets |-> l.rets, reply |-> l.reply,
     err |-> l.err, via |-> g.via, decoded |-> g.decoded, calls |-> g.calls]

ConcIdle ==
    [go |-> [i \in Goroutines |-> Own(DispIdle, <<>>)],
     vars |-> [i \in Goroutines |-> Locals(DispIdle)]]

\* Invocation i has executed up to d.
Store(i, d, chosen) ==
    [go |-> [invs.go EXCEPT ![i] = Own(d, chosen)],
     vars |-> [invs.vars EXCEPT ![VarsOf(i)] = Locals(d)]]

\* The messages of the concurrent callers: malformed bytes, an unknown
\* name, and for every case the empty table and tables with every
\* parameter bound to a value of its type, the int parameters all to 2 or
\* all to 3.
ConcPayloads(cases, decls) ==
    {Malformed, EncodeFunctionCall("Nope", NoArgs)}
    \cup UNION { { EncodeFunctionCall(cases[i].key, NoArgs) }
                 \cup { EncodeFunctionCall(cases[i].key,
                            [n \in {cases[i].params[j].name :
                                      j \in 1..Len(cases[i].params)} |->
                               LET type == cases[i].params[
                                              CHOOSE j \in 1..Len(cases[i].params) :
                                                cases[i].params[j].name = n].type
                               IN  IF type = "int" THEN v
                                   ELSE CHOOSE w \in TypedValues(type, decls) : TRUE])
                        : v \in TypedValues("int", decls) }
                 : i \in 1..Len(cases) }

\* The input files of the concurrent runs: a record type and functions
\* with string, int and record parameters, with and without results.
ConcSources ==
    {s \in Sources :
        \A i \in 1..Len(s) :
            s[i].Name \in {"CalcInput", "Greet", "Sum", "Scale", "Ping"}}

ConcInit ==
    /\ input \in ConcSources
    /\ artifact = [m \in Modes |-> NoArtifact]
    /\ client = ClientIdle
    /\ wire = NoPayload
    /\ disp = DispIdle
    /\ host = HostOff
    /\ bridge = BridgeIdle
    /\ fs = [m \in Modes |-> NoFile]
    /\ now = 0
    /\ runs = <<>>
    /\ invs = ConcIdle

\* A caller hands a message to AgrowsReceive in a goroutine of its own;
\* the messages of the two callers differ.
ConcReceive(i) ==
    /\ ServerRuns
    /\ invs.go[i].pc = "idle"
    /\ \A j \in Goroutines : j < i => invs.go[j].pc # "idle"
    /\ \E data \in ConcPayloads(artifact[SERVER].cases, artifact[SERVER].decls) :
         /\ \A j \in Goroutines : invs.go[j].data # data
         /\ invs' = Store(i, Receive(data, "raw", artifact[SERVER].cases,
                                     artifact[SERVER].decls), <<>>)
    /\ UNCHANGED <<input, artifact, client, wire, disp, bridgeVars, genVars>>

\* Invocation i executes its next statement group: the statements of a
\* parameter, the call, or what follows the call.
ConcStep(i) ==
    /\ invs.go[i].pc \in {"param", "call", "reply"}
    /\ LET d == Frame(invs.go[i], invs.vars[VarsOf(i)])
           cases == artifact[SERVER].cases
           decls == artifact[SERVER].decls
       IN  CASE d.pc = "param" ->
                  invs' = Store(i, DecodeParam(d, cases, decls), invs.go[i].chosen)
             [] d.pc = "call" ->
                  \E rets \in ImplResults(cases[d.case], decls) :
                      invs' = Store(i, Invoke(d, cases, rets), rets)
             [] OTHER ->
                  invs' = Store(i, FormatReply(d, cases, decls), invs.go[i].chosen)
    /\ UNCHANGED <<input, artifact, client, wire, disp, bridgeVars, genVars>>

ConcNext ==
    \/ Main(SERVER)
    \/ \E i \in Goroutines : ConcReceive(i)
    \/ \E i \in Goroutines : ConcStep(i)

ConcSpec == ConcInit /\ [][ConcNext]_vars

(***************************************************************************)
(* Properties of the client at run time (BridgeSpec)                       *)
(***************************************************************************)
\* The stub pair of the wrapper invocation in progress.
BStub == Cli.stubs[bridge.stub]

\* The declaration in the input of the function the wrapper stands for.
BDecl == input[CHOOSE i \in 1..Len(input) :
                  input[i].node = "FuncDecl" /\ input[i].Name = BStub.proxy]

RECURSIVE CountNames(_, _)
CountNames(fields, i) ==
    IF i > Len(fields) THEN 0
    ELSE Len(fields[i].Names) + CountNames(fields, i + 1)

\* N: the number of parameters the function declares.
DeclaredCount == CountNames(BDecl.Params, 1)

\* The declared type of the j-th parameter, counted over the names.
DeclaredType(j) ==
    LET f == CHOOSE i \in 1..Len(BDecl.Params) :
                  /\ CountNames(SubSeq(BDecl.Params, 1, i - 1), 1) < j
                  /\ j <= CountNames(SubSeq(BDecl.Params, 1, i), 1)
    IN  BDecl.Params[f].Type.Name

\* C11: a wrapper called with an array whose length is not the declared
\* parameter count returns an error that states the expected and the actual
\* count; it converts no argument, does not call the native proxy and
\* sends no message.
C11_ArityMismatchErrors ==
    (bridge.pc # "idle" /\ Len(bridge.p) # DeclaredCount) =>
        /\ bridge.pc = "returned"
        /\ bridge.ret.t = "error"
        /\ Contains(bridge.ret.s, "expected " \o ToString(DeclaredCount) \o " ")
        /\ Contains(bridge.ret.s, "got " \o ToString(Len(bridge.p)))
        /\ bridge.steps = <<>>
        /\ bridge.proxied = <<>>
        /\ bridge.invoked = <<>>
        /\ ~wire.present

C11_Witness ==
    /\ bridge.pc = "returned"
    /\ DeclaredCount = 2
    /\ Len(bridge.p) = 3
    /\ bridge.ret.s = "expected 2 arguments, got 3"

\* The integer part of a number given in tenths.
IntegerPart(n) ==
    CHOOSE z \in -10..10 :
        /\ (n >= 0 => (z >= 0 /\ 10 * z <= n /\ n < 10 * z + 10))
        /\ (n < 0 => (z <= 0 /\ 10 * z >= n /\ n > 10 * z - 10))

\* What a bridge value is as a value of a declared type, where it is one.
Converted(v, typeName) ==
    CASE v.tag = "string" /\ typeName = "string" -> StringValue(v.s)
      [] v.tag = "number" /\ typeName = "int" -> IntValue(IntegerPart(v.n))
      [] v.tag = "number" /\ typeName = "float64" -> FloatValue(v.n)
      [] v.tag = "object" ->
            StructValue(typeName,
                [x \in Range(FieldsOf(input, typeName)) |->
                    IF x \in DOMAIN v.o THEN IntegerPart(v.o[x].n) ELSE 0])
      [] OTHER -> NilValue

\* C12: with the right number of arguments the values are converted in
\* declared order; the first failure ends the wrapper with an error and
\* without a call of the native proxy; when all conversions succeed the
\* native proxy is called exactly once, with the converted values in
\* declared order, and the wrapper returns what the proxy returned.
C12_ConvertInOrderThenProxyOnce ==
    (bridge.pc # "idle" /\ Len(bridge.p) = DeclaredCount) =>
        LET n == Len(bridge.steps)
            allOk == n = DeclaredCount /\ \A j \in 1..n : bridge.steps[j].ok
        IN  /\ n <= DeclaredCount
            /\ \A j \in 1..n :
                 /\ bridge.steps[j].k = j
                 /\ bridge.steps[j].in = bridge.p[j]
                 /\ bridge.steps[j].target = DeclaredType(j)
            /\ \A j \in 1..(n - 1) : bridge.steps[j].ok
            /\ (n > 0 /\ ~bridge.steps[n].ok) =>
                 /\ bridge.pc = "returned"
                 /\ bridge.ret.t = "error"
                 /\ bridge.proxied = <<>>
                 /\ bridge.invoked = <<>>
            /\ bridge.proxied # <<>> =>
                 /\ allOk
                 /\ Len(bridge.proxied) = 1
                 /\ bridge.proxied[1].args =
                        [j \in 1..DeclaredCount |->
                            Converted(bridge.p[j], DeclaredType(j))]
                 /\ bridge.ret = bridge.proxied[1].ret
            /\ (bridge.pc = "returned" /\ allOk) => Len(bridge.proxied) = 1

C12_Witness ==
    /\ bridge.pc = "returned"
    /\ BStub.proxy = "Sum"
    /\ bridge.p = <<JsNumber(37), JsNumber(20)>>
    /\ bridge.proxied = <<[args |-> <<IntValue(3), IntValue(2)>>, ret |-> NilValue]>>

Registration(i) ==
    [global |-> ExportedFuncs[i].Name,
     wrapper |-> ExportedFuncs[i].Name \o "Wrapper"]

\* C14: main of the client registers, in catalog order, the wrapper of
\* every catalog function under the function's original name; all of them
\* are registered when main parks, and once parked main stays parked.
C14_RegistersAllThenParks ==
    /\ [](host.pc \in {"registering", "parked"} =>
            /\ Len(host.globals) <= Len(ExportedFuncs)
            /\ \A i \in 1..Len(host.globals) :
                 /\ host.globals[i] = Registration(i)
                 /\ \E j \in 1..Len(Cli.stubs) :
                        Cli.stubs[j].wrapper = host.globals[i].wrapper)
    /\ [](host.pc = "parked" => Len(host.globals) = Len(ExportedFuncs))
    /\ [][host.pc = "parked" => host'.pc = "parked"]_vars

C14_Witness ==
    /\ host.pc = "parked"
    /\ Len(host.globals) = 2
    /\ bridge.pc = "returned"

\* The payload the native proxy encodes for the values the wrapper passed.
BPayload ==
    EncodeFunctionCall(BDecl.Name,
        [x \in {BStub.params[j].name : j \in 1..Len(BStub.params)} |->
            bridge.proxied[1].args[CHOOSE j \in 1..Len(BStub.params) :
                                      BStub.params[j].name = x]])

\* C15: sendMessage looks up the host global sendMessage; when it is not
\* callable sendMessage returns an error, allocates no buffer and invokes
\* nothing; otherwise it copies the whole payload into a buffer of the
\* payload's length and invokes the callable once with that buffer.
C15_SendMessage ==
    (bridge.pc = "returned" /\ bridge.lookups # <<>>) =>
        /\ bridge.lookups[1] = "sendMessage"
        /\ (host.sendMessage # "function") =>
              /\ bridge.ret.t = "error"
              /\ bridge.allocated = <<>>
              /\ bridge.invoked = <<>>
              /\ ~wire.present
        /\ (host.sendMessage = "function") =>
              /\ bridge.allocated = <<Len(Bytes(BPayload))>>
              /\ bridge.invoked = <<Bytes(BPayload)>>
              /\ wire = BPayload

C15_Witness ==
    /\ bridge.pc = "returned"
    /\ Len(bridge.invoked) = 1
    /\ Len(bridge.invoked[1]) = 3
    /\ bridge.allocated = <<3>>

(***************************************************************************)
(* Properties of the generator runs (GenSpec)                              *)
(***************************************************************************)
\* C16: a run that fails at any step leaves the output file as it was: not
\* created, not truncated, nothing written.
C16_NoOutputOnFailure ==
    \A i \in 1..Len(runs) :
        runs[i].status = "failed" => runs[i].after = runs[i].before

\* The text a run wrote: the last thing written to its output file.
Emitted(i) == runs[i].after.content[Len(runs[i].after.content)]

\* C17: every emitted artifact starts with the build constraint of its own
\* variant, server for the Server artifact and client for the Client
\* artifact, followed by the provenance header.
C17_TaggedByVariant ==
    \A i \in 1..Len(runs) :
        runs[i].status = "written" =>
            /\ Contains(Emitted(i).tag, "//go:build")
            /\ runs[i].mode = SERVER =>
                  (Contains(Emitted(i).tag, "server")
                   /\ ~Contains(Emitted(i).tag, "client"))
            /\ runs[i].mode = CLIENT =>
                  (Contains(Emitted(i).tag, "client")
                   /\ ~Contains(Emitted(i).tag, "server"))
            /\ Contains(Emitted(i).header, "generated by agrows")

\* C18 as stated: two runs on the same source in the same mode leave
\* byte-identical output files.
C18_ByteIdentical ==
    \A i, j \in 1..Len(runs) :
        (runs[i].mode = runs[j].mode /\ runs[i].status = "written"
         /\ runs[j].status = "written") =>
            runs[i].after = runs[j].after

\* The text without the date and the time of the run.
Undated(text) == [text EXCEPT !.date = "", !.time = ""]

\* C18 amended: two runs on the same source in the same mode leave output
\* files that differ in nothing but the date and the time in the header,
\* whatever the earlier run or anyone else left in the output file.
C18_IdenticalButTimestamp ==
    \A i, j \in 1..Len(runs) :
        (runs[i].mode = runs[j].mode /\ runs[i].status = "written"
         /\ runs[j].status = "written") =>
            /\ Len(runs[i].after.content) = 1
            /\ Len(runs[j].after.content) = 1
            /\ Undated(Emitted(i)) = Undated(Emitted(j))
            /\ (Emitted(i).date = Emitted(j).date
                /\ Emitted(i).time = Emitted(j).time) =>
                   runs[i].after = runs[j].after

C18_Witness ==
    /\ Len(runs) = 2
    /\ runs[1].mode = runs[2].mode
    /\ runs[1].status = "written" /\ runs[2].status = "written"
    /\ runs[2].before = runs[1].after
    /\ Emitted(1).time # Emitted(2).time
    /\ Len(input) > 0

(***************************************************************************)
(* Properties of the catalog (Spec)                                        *)
(***************************************************************************)
\* C20: the catalog lists the exported functions in declaration order, and
\* the parameter list of each has one entry per declared parameter name in
\* declared order, each with the type of its group: (a, b int) gives the
\* entries a int and b int.
C20_CatalogParamsPerName ==
    \A m \in Modes :
        artifact[m].status = "written" =>
            /\ Len(artifact[m].functions) = Len(ExportedFuncs)
            /\ \A i \in 1..Len(ExportedFuncs) :
                 LET fn == artifact[m].functions[i]
                     decl == ExportedFuncs[i]
                 IN  /\ fn.OriginalIdentifier = decl.Name
                     /\ Len(fn.Params) = CountNames(decl.Params, 1)
                     /\ \A f \in 1..Len(decl.Params) :
                          \A j \in 1..Len(decl.Params[f].Names) :
                            LET e == fn.Params[
                                       CountNames(SubSeq(decl.Params, 1, f - 1), 1) + j]
                            IN  /\ e.Names = <<decl.Params[f].Names[j]>>
                                /\ e.Type = decl.Params[f].Type

C20_Witness ==
    \E m \in Modes :
        /\ artifact[m].status = "written"
        /\ Len(artifact[m].functions) = 2
        /\ artifact[m].functions[2].OriginalIdentifier = "Sum"
        /\ Len(artifact[m].functions[2].Params) = 2
        /\ artifact[m].functions[2].Params[1].Names = <<"a">>
        /\ artifact[m].functions[2].Params[2].Names = <<"b">>
        /\ artifact[m].functions[2].Params[2].Type = Ident("int")

(***************************************************************************)
(* Properties of concurrent invocations (ConcSpec)                         *)
(***************************************************************************)
RECURSIVE RunToEnd(_, _)
\* AgrowsReceive run from d to its end with nothing else running, the
\* implementation returning rets.
RunToEnd(d, rets) ==
    CASE d.pc = "param" -> RunToEnd(DecodeParam(d, Srv.cases, Srv.decls), rets)
      [] d.pc = "call" ->
            RunToEnd(Invoke(d, Srv.cases,
                            IF Len(rets) = Len(Srv.cases[d.case].varNames)
                            THEN rets
                            ELSE CHOOSE r \in ImplResults(Srv.cases[d.case],
                                                          Srv.decls) : TRUE),
                     rets)
      [] d.pc = "reply" -> RunToEnd(FormatReply(d, Srv.cases, Srv.decls), rets)
      [] OTHER -> d

\* What the invocation of a message ends with when it runs alone.
Alone(data, rets) ==
    Outcome(RunToEnd(Receive(data, "raw", Srv.cases, Srv.decls), rets))

C21_OneResultEntryPerResult ==
    \A m \in Modes :
        artifact[m].status # "absent" =>
            \A i \in 1..Len(ExportedFuncs) :
                /\ Len(artifact[m].functions[i].Results)
                      = NumValues(ExportedFuncs[i].Results)
                /\ (m = SERVER /\ artifact[m].status = "written") =>
                      Len(artifact[m].cases[i].varNames)
                          = NumValues(ExportedFuncs[i].Results)

\* The file declares the named type as a struct type.
DeclaredStruct(name) ==
    \E i \in 1..Len(input) :
        /\ input[i].node = "GenDecl" /\ input[i].Tok = "type"
        /\ input[i].Name = name /\ input[i].Type.kind = "StructType"

\* Aggregate: an inline struct type, or the name of a declared struct type.
Aggregate(expr) ==
    \/ expr.kind = "StructType"
    \/ expr.kind = "Ident" /\ DeclaredStruct(expr.Name)

\* C22: every parameter and result of the catalog is classified, whatever
\* its type expression; it is Aggregate exactly when the expression is an
\* inline struct type or a name the file declares as a struct type, and
\* Primitive otherwise (a name the registry does not have included).
C22_ClassifyAggregateIffRecord ==
    \A m \in Modes :
        artifact[m].status # "absent" =>
            /\ Len(artifact[m].functions) = Len(ExportedFuncs)
            /\ \A i \in 1..Len(artifact[m].functions) :
                 LET fn == artifact[m].functions[i]
                 IN  /\ \A j \in 1..Len(fn.Params) :
                           fn.Params[j].IsStruct = Aggregate(fn.Params[j].Type)
                     /\ \A j \in 1..Len(fn.Results) :
                           fn.Results[j].IsStruct = Aggregate(fn.Results[j].Type)

\* Warm(c Celsius, inp CalcInput) string with both types declared: a name
\* mapped to a non-struct, a name mapped to a struct, a name not mapped.
C22_Witness ==
    \E m \in Modes :
        /\ artifact[m].status # "absent"
        /\ Len(artifact[m].functions) = 1
        /\ LET fn == artifact[m].functions[1]
           IN  /\ fn.OriginalIdentifier = "Warm"
               /\ "Celsius" \in DOMAIN artifact[m].typeMap
               /\ fn.Params[1].Type = Ident("Celsius") /\ ~fn.Params[1].IsStruct
               /\ fn.Params[2].Type = Ident("CalcInput") /\ fn.Params[2].IsStruct
               /\ "string" \notin DOMAIN artifact[m].typeMap
               /\ ~fn.Results[1].IsStruct

\* The positions of the exported function declarations in the input.
ExportedAt ==
    LET idx == {i \in 1..Len(input) :
                   input[i].node = "FuncDecl" /\ IsExported(input[i].Name)}
    IN  [k \in 1..Cardinality(idx) |->
            CHOOSE i \in idx : Cardinality({j \in idx : j < i}) = k - 1]

\* C23: in the Server artifact every exported function declaration carries
\* "agrows_" followed by its original name and every other declaration is
\* as it was; the function a dispatcher case calls is the name the
\* declaration of that catalog function carries after the renaming; the
\* identifiers of the catalog are the original names.
C23_RenamedDeclIsTheCallee ==
    Srv.status = "written" =>
        /\ Len(Srv.decls) = Len(input)
        /\ \A i \in 1..Len(input) :
              IF input[i].node = "FuncDecl" /\ IsExported(input[i].Name)
              THEN Srv.decls[i] = [input[i] EXCEPT !.Name = "agrows_" \o input[i].Name]
              ELSE Srv.decls[i] = input[i]
        /\ Len(Srv.functions) = Len(ExportedAt)
        /\ Len(Srv.cases) = Len(ExportedAt)
        /\ \A k \in 1..Len(ExportedAt) :
              /\ Srv.cases[k].callee = Srv.decls[ExportedAt[k]].Name
              /\ Srv.functions[k].OriginalIdentifier = input[ExportedAt[k]].Name

\* Double and the unexported helper that calls it.
C23_Witness ==
    /\ Srv.status = "written"
    /\ Len(input) = 2
    /\ input[1].Name = "helper" /\ input[2].Name = "Double"
    /\ Srv.decls[1].Name = "helper" /\ Srv.decls[2].Name = "agrows_Double"
    /\ Srv.cases[1].callee = "agrows_Double"
    /\ Srv.functions[1].OriginalIdentifier = "Double"

\* An import declaration.
IsImportDecl(d) == d.node = "GenDecl" /\ d.Tok = "import"

\* The import specs of the input, in file order.
OriginalImports ==
    FlatMap([i \in 1..Len(input) |->
                IF IsImportDecl(input[i]) THEN input[i].Specs ELSE <<>>], 1)

\* The import paths and the function names of the generated file of a mode.
GeneratedPaths(m) ==
    IF m = SERVER
    THEN <<"errors", "fmt", "github.com/codeupdateandmodificationsystem/protocol">>
         \o (IF \E i \in 1..Len(ExportedFuncs) :
                    \E j \in 1..Len(ExportedFuncs[i].Params) :
                        Aggregate(ExportedFuncs[i].Params[j].Type)
             THEN <<"reflect">> ELSE <<>>)
    ELSE <<"encoding/json", "fmt">>
         \o (IF Len(ExportedFuncs) > 0
             THEN <<"github.com/codeupdateandmodificationsystem/protocol">>
             ELSE <<>>)
         \o <<"reflect", "syscall/js">>

GeneratedNames(m) ==
    IF m = SERVER THEN <<"AgrowsReceive">>
    ELSE <<"jsValueToAny">>
         \o FlatMap([i \in 1..Len(ExportedFuncs) |->
                        <<ExportedFuncs[i].Name,
                          ExportedFuncs[i].Name \o "Wrapper">>], 1)
         \o <<"sendMessage", "main">>

Occurrences(path) ==
    {<<r, spec>> \in (1..Len(Srv.text.imports)) \X UNION Range(Srv.text.imports) :
        spec \in Srv.text.imports[r] /\ spec.Path = path}

\* C25: every import path occurs at most once in the import block of the
\* emitted Server artifact, also when the original file imports a package
\* the generated dispatcher imports too.
C25_ImportPathsOnce ==
    Srv.status = "written" =>
        \A run \in Range(Srv.text.imports) : \A spec \in run :
            Cardinality(Occurrences(spec.Path)) <= 1

\* C26: no two entries of the catalog have the same identifier, so no two
\* cases of the dispatcher have the same key and no two client stubs the
\* same name (the input being a file the compiler accepts).
C26_CatalogIdentifiersUnique ==
    \A m \in Modes :
        artifact[m].status # "absent" =>
            /\ \A i, j \in 1..Len(artifact[m].functions) :
                  i # j => artifact[m].functions[i].OriginalIdentifier
                              # artifact[m].functions[j].OriginalIdentifier
            /\ \A i, j \in 1..Len(artifact[m].cases) :
                  i # j => artifact[m].cases[i].key # artifact[m].cases[j].key
            /\ \A i, j \in 1..Len(artifact[m].stubs) :
                  i # j => artifact[m].stubs[i].proxy # artifact[m].stubs[j].proxy

\* C29: a run of the generator completes and emits a dispatcher case
\* (Server) and a proxy with its wrapper (Client) for every exported
\* function, whatever the shape of its parameter and result types.
C29_GenerationCompletes ==
    \A m \in Modes :
        artifact[m].status # "absent" =>
            /\ artifact[m].status = "written"
            /\ m = SERVER => Len(artifact[m].cases) = Len(ExportedFuncs)
            /\ m = CLIENT => Len(artifact[m].stubs) = Len(ExportedFuncs)

\* C30: in the Server artifact every function a retained declaration calls
\* is declared in the artifact.
C30_ReferencesResolve ==
    Srv.status = "written" =>
        \A i \in 1..Len(Srv.decls) : \A k \in 1..Len(Srv.decls[i].Body) :
            \E j \in 1..Len(Srv.text.combined) :
                /\ Srv.text.combined[j].node = "FuncDecl"
                /\ Srv.text.combined[j].Recv = ""
                /\ Srv.text.combined[j].Name = Srv.decls[i].Body[k]

(***************************************************************************)
(* Properties of the Value Conversion Routine (BridgeSpec)                 *)
(***************************************************************************)
\* The tags jsValueToAny has a case for.
SupportedTags ==
    {"boolean", "number", "string", "object", "function", "undefined", "null"}

\* C27: the conversion of a bridge value has one outcome for every tag: a
\* value and no error (a boolean gives the Go boolean, a string the same
\* string, null and undefined nil, a function the value itself; a number
\* and an object a value or, for an object, an error), and for any other
\* tag nil and an error that names the tag; an error never comes with a
\* value, and an object with a member that cannot be converted gives an
\* error and no value.
C27_ConversionTotal ==
    \A j \in 1..Len(bridge.steps) :
        LET st == bridge.steps[j]
            tag == st.in.tag
        IN  /\ st.err.t \in {"nil", "error"}
            /\ st.err.t = "error" => st.out = NilValue
            /\ tag = "boolean" =>
                  st.err = NilValue /\ st.out.t = "bool" /\ st.out.i = st.in.n
            /\ tag = "string" =>
                  st.err = NilValue /\ st.out.t = "string" /\ st.out.s = st.in.s
            /\ tag \in {"null", "undefined"} =>
                  st.err = NilValue /\ st.out = NilValue
            /\ tag = "function" =>
                  st.err = NilValue /\ st.out.t = "js.Value" /\ st.out.s = tag
            /\ tag = "number" => st.err = NilValue /\ st.out # NilValue
            /\ (tag = "object" /\ \E key \in DOMAIN st.in.o :
                                      st.in.o[key].tag \notin SupportedTags) =>
                  st.err.t = "error" /\ st.out = NilValue
            /\ tag \notin SupportedTags =>
                  /\ st.out = NilValue
                  /\ st.err.t = "error"
                  /\ Contains(st.err.s, tag)

\* Sum was called with a number and a symbol: the number gave a value and
\* no error, the symbol nil and the error that names the tag.
C27_Witness ==
    /\ bridge.pc = "returned"
    /\ Len(bridge.steps) = 2
    /\ bridge.steps[1].in = JsNumber(37)
    /\ bridge.steps[1].out = IntValue(3) /\ bridge.steps[1].err = NilValue
    /\ bridge.steps[2].in = JsSymbol
    /\ bridge.steps[2].out = NilValue
    /\ bridge.steps[2].err = JsError("unsupported js value type: symbol")

\* C28: for a parameter of a signed, unsigned or floating type the value
\* converted from a bridge number has that type as its dynamic type, the
\* wrapper accepts it, and with all arguments numbers the native proxy is
\* reached.
C28_NumberHasTargetType ==
    /\ \A j \in 1..Len(bridge.steps) :
          LET st == bridge.steps[j]
          IN  (st.in.tag = "number"
               /\ st.target \in SignedKinds \cup UnsignedKinds \cup FloatKinds) =>
                  st.out.t = st.target /\ st.ok
    /\ (/\ bridge.pc = "returned"
        /\ Len(bridge.p) = DeclaredCount
        /\ \A j \in 1..DeclaredCount :
              /\ bridge.p[j].tag = "number"
              /\ DeclaredType(j) \in SignedKinds \cup UnsignedKinds \cup FloatKinds) =>
          Len(bridge.proxied) = 1

====
